---------------------------- MODULE Spec2Model ----------------------------
(***************************************************************************)
(* Model of the extraction engine of src/src/csv_historical_results.js:    *)
(* the CSV lexer (parseCsvText), the cell normalizers, the composite       *)
(* header parser (parseYearHeaderCell) and the section scanner /           *)
(* aggregator (parseHistoricalResultsByCountCsv).                          *)
(*                                                                         *)
(* A JavaScript string is modelled as a sequence of one-character strings, *)
(* so that lexing, trimming and pattern matching are computed character by *)
(* character as the code computes them.  A nullable value is a set: Null   *)
(* is the empty set and a value v that is not null is Some(v) = {v}.       *)
(***************************************************************************)
EXTENDS Integers, Sequences, FiniteSets, TLC

VARIABLES
    pc,        \* "ready" before the call, "done" after it returned or threw
    call,      \* which exported function the behaviour calls
    text,      \* the input text (parseCsvText / parseHistoricalResultsByCountCsv)
    maxRows,   \* option maxRows of parseCsvText
    maxCols,   \* option maxCols of parseCsvText
    cell,      \* the input cell of parseYearHeaderCell
    written,   \* the grid of cells that text was written from, when it was
    out,       \* the value returned, or the error thrown
    yearsPresent, \* the input list of continuousYears / missingYearsFromRanges
    calls,     \* the calls made so far, each with its text and its result
    file,      \* the file handed to handleFile (main.js)
    state,     \* the application state of main.js (let state)
    store,     \* the IndexedDB store kv: the counts index and the databases
    saves      \* the locals of the calls of saveCurrentStateToSqlite under way

vars == <<pc, call, text, maxRows, maxCols, cell, written, out,
          yearsPresent, calls, file, state, store, saves>>

Null == {}
Some(v) == {v}
\* let state = { species: null, ... }: no count is loaded.  The fields that
\* parseUploadedFile derives for display only (ranges, sourceUrl,
\* maxCountIndex) are left out of the record.
NoState ==
    [species |-> {}, weather |-> {}, effort |-> {}, participation |-> {},
     meta |-> {}, years |-> {}, yearsFull |-> {}, missingYears |-> {},
     countInfo |-> {}, filename |-> {}, selectedSpecies |-> {}]

\* the store kv of a browser that holds no count yet
NoStore == [index |-> {}, dbs |-> <<>>]

\* no list of years, no call made, no file handed over, no count loaded,
\* nothing stored and no save under way
AppIdle ==
    /\ yearsPresent = <<>> /\ calls = <<>> /\ file = {} /\ state = NoState
    /\ store = NoStore /\ saves = <<>>

Val(o) == CHOOSE v \in o : TRUE

-----------------------------------------------------------------------------
(* Characters and strings                                                  *)

QUOTE == "\""
COMMA == ","
NL    == "\n"
CR    == "\r"
SP    == " "

Digits == {"0", "1", "2", "3", "4", "5", "6", "7", "8", "9"}

\* The white space of String.prototype.trim and of the regex class \s that
\* the modelled inputs can contain.
IsSpace(c) == c \in {" ", "\t", "\n", "\r"}

DigitVal(c) ==
    CASE c = "0" -> 0 [] c = "1" -> 1 [] c = "2" -> 2 [] c = "3" -> 3
      [] c = "4" -> 4 [] c = "5" -> 5 [] c = "6" -> 6 [] c = "7" -> 7
      [] c = "8" -> 8 [] c = "9" -> 9

\* s.slice(i - 1): the suffix of s from the 1-based position i on.
From(s, i) == IF i > Len(s) THEN <<>> ELSE SubSeq(s, i, Len(s))

\* String(s).startsWith(p) at the 1-based position i.
StartsWithAt(s, i, p) ==
    /\ i + Len(p) - 1 <= Len(s)
    /\ \A k \in 1..Len(p) : s[i + k - 1] = p[k]

\* the least element of a non-empty set of integers
Min(S) == CHOOSE a \in S : \A b \in S : a <= b

\* the index after the white space that starts at the 1-based position i
SkipSpaces(s, i) ==
    IF i > Len(s) THEN i
    ELSE Min({j \in i..(Len(s) + 1) : j = Len(s) + 1 \/ ~IsSpace(s[j])})

\* the index after the digits that start at the 1-based position i
DigitRunEnd(s, i) ==
    IF i > Len(s) THEN i
    ELSE Min({j \in i..(Len(s) + 1) : j = Len(s) + 1 \/ s[j] \notin Digits})

\* String.prototype.trim
Trim(s) ==
    LET solid == {k \in 1..Len(s) : ~IsSpace(s[k])}
    IN  IF solid = {} THEN <<>>
        ELSE SubSeq(s, Min(solid), CHOOSE a \in solid : \A b \in solid : a >= b)

\* replaceAll('\r\n', '\n') on s[lo..hi]: the CR of every CR LF pair is dropped
\* (the range is halved so that a long text does not nest the evaluation deeply)
RECURSIVE DropCrOfCrLf(_, _, _)
DropCrOfCrLf(s, lo, hi) ==
    IF lo > hi THEN <<>>
    ELSE IF lo = hi
         THEN (IF s[lo] = CR /\ lo < Len(s) /\ s[lo + 1] = NL THEN <<>> ELSE <<s[lo]>>)
         ELSE DropCrOfCrLf(s, lo, (lo + hi) \div 2)
                 \o DropCrOfCrLf(s, (lo + hi) \div 2 + 1, hi)

ReplaceCrLf(s) ==
    IF \A k \in 1..Len(s) : s[k] # CR THEN s ELSE DropCrOfCrLf(s, 1, Len(s))

\* replaceAll('\r', '\n')
ReplaceCr(s) == [k \in 1..Len(s) |-> IF s[k] = CR THEN NL ELSE s[k]]

normalizeNewlines(s) == ReplaceCr(ReplaceCrLf(s))

-----------------------------------------------------------------------------
(* parseCsvText                                                            *)

\* const pushField: row.push(field)
pushField(row, field) == Append(row, field)

\* (mutant) only the trailing fields of no character are dropped
pushRow_popsEmptyOnly(rows, row) ==
    LET solid == {k \in 1..Len(row) : row[k] # <<>>}
    IN  IF solid = {} THEN rows
        ELSE Append(rows, SubSeq(row, 1, CHOOSE a \in solid : \A b \in solid : a >= b))

\* const pushRow: drop the trailing blank fields, keep the row if any is left
pushRow(rows, row) ==
    LET solid == {k \in 1..Len(row) : Trim(row[k]) # <<>>}
    IN  IF solid = {} THEN rows
        ELSE Append(rows, SubSeq(row, 1, CHOOSE a \in solid : \A b \in solid : a >= b))

\* (mutant) the throw after a comma taken two fields short of the cap
TooManyCols_shortOfCap(row, mc) == Len(row) + 2 > mc

\* the guard of the throw after a comma
TooManyCols(row, mc) == Len(row) > mc

\* the guard of the throw after a newline
TooManyRows(rows, mr) == Len(rows) > mr

\* (mutant) the second quote of a doubled quote read as the closing one
IsDoubledQuote_never(s, i) == FALSE

\* inside quotes, at a quote: const next = s[i + 1]; next === '"'
IsDoubledQuote(s, i) == i + 1 <= Len(s) /\ s[i + 1] = QUOTE

\* The locals of parseCsvText before the loop.  thrown records the Error that
\* ended the call ("none": no throw); skip is the i++ of the doubled quote,
\* which makes the loop pass over the next character.
LexStart ==
    [rows |-> <<>>, row |-> <<>>, field |-> <<>>, inQuotes |-> FALSE,
     skip |-> FALSE, thrown |-> "none"]

\* One iteration of the for loop, on the character s[i].
LexStep(st, s, i, mr, mc) ==
    LET ch == s[i] IN
    IF st.thrown # "none" THEN st
    ELSE IF st.skip THEN [st EXCEPT !.skip = FALSE]
    ELSE IF st.inQuotes THEN
        IF ch = QUOTE THEN
            IF IsDoubledQuote(s, i)
            THEN [st EXCEPT !.field = Append(@, QUOTE), !.skip = TRUE]
            ELSE [st EXCEPT !.inQuotes = FALSE]
        ELSE [st EXCEPT !.field = Append(@, ch)]
    ELSE IF ch = QUOTE THEN [st EXCEPT !.inQuotes = TRUE]
    ELSE IF ch = COMMA THEN
        LET r2 == pushField(st.row, st.field) IN
        IF TooManyCols(r2, mc) THEN [st EXCEPT !.thrown = "cols"]
        ELSE [st EXCEPT !.row = r2, !.field = <<>>]
    ELSE IF ch = NL THEN
        LET rs == pushRow(st.rows, pushField(st.row, st.field)) IN
        IF TooManyRows(rs, mr) THEN [st EXCEPT !.thrown = "rows"]
        ELSE [st EXCEPT !.rows = rs, !.row = <<>>, !.field = <<>>]
    ELSE [st EXCEPT !.field = Append(@, ch)]

\* The iterations lo..hi of the for loop, from the locals st (the range is
\* halved so that a long text does not nest the evaluation deeply).
RECURSIVE LexLoop(_, _, _, _, _, _)
LexLoop(st, s, lo, hi, mr, mc) ==
    IF lo > hi THEN st
    ELSE IF lo = hi THEN LexStep(st, s, lo, mr, mc)
    ELSE LET mid  == (lo + hi) \div 2
             left == LexLoop(st, s, lo, mid, mr, mc)
         IN  IF left.thrown # "none" THEN left
             ELSE LexLoop(left, s, mid + 1, hi, mr, mc)

Thrown(kind) == [thrown |-> kind, rows |-> <<>>]
Returned(rows) == [thrown |-> "none", rows |-> rows]

\* after the loop: pushField(); pushRow(); return rows
LexEnd(st) ==
    IF st.thrown # "none" THEN Thrown(st.thrown)
    ELSE Returned(pushRow(st.rows, pushField(st.row, st.field)))

LexAll(s, mr, mc) == LexEnd(LexLoop(LexStart, s, 1, Len(s), mr, mc))

parseCsvText(t, mr, mc) == LexAll(normalizeNewlines(t), mr, mc)

-----------------------------------------------------------------------------
(* Cell normalizers                                                        *)

RECURSIVE Pow10(_)
Pow10(n) == IF n = 0 THEN 1 ELSE 10 * Pow10(n - 1)

\* the value of the decimal digits s[i..j-1] (0 when there is none)
RECURSIVE DecVal(_, _, _)
DecVal(s, i, j) ==
    IF j <= i THEN 0 ELSE 10 * DecVal(s, i, j - 1) + DigitVal(s[j - 1])

\* The JavaScript number m * 10^(-e) as the record of its mantissa and its
\* count of decimals, without trailing zeros (a whole number has e = 0).
RECURSIVE MkNum(_, _)
MkNum(m, e) ==
    IF e <= 0 THEN [m |-> m * Pow10(0 - e), e |-> 0]
    ELSE IF m % 10 = 0 THEN MkNum(m \div 10, e - 1)
    ELSE [m |-> m, e |-> e]

\* the index after the sign, if any, at the 1-based position i
SignEnd(s, i) == IF i <= Len(s) /\ s[i] \in {"-", "+"} THEN i + 1 ELSE i

\* the integer whose sign is before d and whose digits are s[d..j-1]
IntValue(s, d, j) ==
    IF j = d THEN Null
    ELSE Some(IF d > 1 /\ s[d - 1] = "-" THEN 0 - DecVal(s, d, j) ELSE DecVal(s, d, j))

IntFrom(s, d) == IntValue(s, d, DigitRunEnd(s, d))

\* parseInt(s, 10): Null stands for NaN
parseInt(s) == IntFrom(s, SignEnd(s, SkipSpaces(s, 1)))

\* the index after the fraction ".ddd", if any, at j (j + 1 for a bare dot)
FractionEnd(s, j) == IF j <= Len(s) /\ s[j] = "." THEN DigitRunEnd(s, j + 1) ELSE j

\* the index of the first digit of the exponent whose letter is at k; k when
\* there is no exponent letter
ExponentStart(s, k) ==
    IF k <= Len(s) /\ s[k] \in {"e", "E"}
    THEN (IF k + 1 <= Len(s) /\ s[k + 1] \in {"-", "+"} THEN k + 2 ELSE k + 1)
    ELSE k

\* The number read from s: its sign is before d, its integer digits are
\* s[d..j-1], its fraction ends before k and its exponent digits start at x
\* (an exponent counts only when digits follow it).
FloatValue(s, d, j, k, x) ==
    LET neg   == d > 1 /\ s[d - 1] = "-"
        y     == IF x > k THEN DigitRunEnd(s, x) ELSE k
        exp   == IF y > x /\ x > k
                 THEN (IF s[x - 1] = "-" THEN 0 - DecVal(s, x, y) ELSE DecVal(s, x, y))
                 ELSE 0
        nfrac == IF k > j THEN k - (j + 1) ELSE 0
        mant  == DecVal(s, d, j) * Pow10(nfrac) + (IF k > j THEN DecVal(s, j + 1, k) ELSE 0)
    IN  IF j = d /\ nfrac = 0 THEN Null
        ELSE Some(MkNum(IF neg THEN 0 - mant ELSE mant, nfrac - exp))

FloatFraction(s, d, j, k) == FloatValue(s, d, j, k, ExponentStart(s, k))

FloatDigits(s, d, j) == FloatFraction(s, d, j, FractionEnd(s, j))

FloatFrom(s, d) == FloatDigits(s, d, DigitRunEnd(s, d))

\* parseFloat(s): Null stands for NaN and for the infinities, which every
\* caller turns into null (Number.isFinite).
parseFloat(s) == FloatFrom(s, SignEnd(s, SkipSpaces(s, 1)))

\* /^-?\d+(?:\.\d+)?$/ on s: digits s[d..j-1], then nothing or a dot and digits
NumericFrom(s, d, j) ==
    /\ j > d
    /\ FractionEnd(s, j) > j => FractionEnd(s, j) > j + 1
    /\ FractionEnd(s, j) = Len(s) + 1

NumericLike(s) ==
    /\ s # <<>>
    /\ LET d == IF s[1] = "-" THEN 2 ELSE 1 IN NumericFrom(s, d, DigitRunEnd(s, d))

\* (mutant) the pattern is one object with the flag g, shared by all calls:
\* its lastIndex, left behind by the call before, fails every second call
isNumericLike_sticky(v) == NumericLike(Trim(v)) /\ Len(calls) % 2 = 0

\* return s !== '' && /^-?\d+(?:\.\d+)?$/.test(s), s the trimmed cell
isNumericLike(v) == NumericLike(Trim(v))

\* the end of a match of /\d+(?:\.\d+)?/ whose digits are s[d..j-1], or 0
DecimalEnd(s, d, j) ==
    IF j = d THEN 0 ELSE IF FractionEnd(s, j) > j + 1 THEN FractionEnd(s, j) ELSE j

\* the end of a match of /-?\d+(?:\.\d+)?/ that starts at i, or 0
SignedDecimalEnd(s, i) ==
    LET d == IF i <= Len(s) /\ s[i] = "-" THEN i + 1 ELSE i
    IN  DecimalEnd(s, d, DigitRunEnd(s, d))

\* the least element of S, 0 when S is empty: where the leftmost match starts
LeastOrZero(S) == IF S = {} THEN 0 ELSE Min(S)

\* parseFloat(m[0]), m the match that starts at i (no match: i = 0)
TempAt(s, i) ==
    IF i = 0 THEN Null ELSE parseFloat(SubSeq(s, i, SignedDecimalEnd(s, i) - 1))

\* (mutant) the number is looked for at the start of s only
TempIn_fromStart(s) == TempAt(s, IF SignedDecimalEnd(s, 1) # 0 THEN 1 ELSE 0)

\* the leftmost match of /-?\d+(?:\.\d+)?/ in s
TempIn(s) == TempAt(s, LeastOrZero({i \in 1..Len(s) : SignedDecimalEnd(s, i) # 0}))

parseTempFString(v) == TempIn(Trim(v))

\* if (!s) return null, then the number read from s
IntOrNull(s) == IF s = <<>> THEN Null ELSE parseInt(s)
FloatOrNull(s) == IF s = <<>> THEN Null ELSE parseFloat(s)

parseMaybeInt(v) == IntOrNull(Trim(v))

parseMaybeFloat(v) == FloatOrNull(Trim(v))

\* s.split(c): the pieces between the occurrences of c
SplitOn(s, c) ==
    LET cuts == {k \in 1..Len(s) : s[k] = c}
        \* the cut before piece n (0 for the first), the cut after it
        Lo(n) == IF n = 1 THEN 0
                 ELSE CHOOSE k \in cuts : Cardinality({j \in cuts : j <= k}) = n - 1
        Hi(n) == IF n = Cardinality(cuts) + 1 THEN Len(s) + 1
                 ELSE CHOOSE k \in cuts : Cardinality({j \in cuts : j <= k}) = n
    IN  [n \in 1..(Cardinality(cuts) + 1) |-> SubSeq(s, Lo(n) + 1, Hi(n) - 1)]

\* const [latRaw, lonRaw] = s.split('/') and the two parseFloat
LatLongOf(parts) ==
    [Lat |-> parseFloat(Trim(parts[1])), Lon |-> parseFloat(Trim(parts[2]))]

LatLongIn(s) ==
    IF s = <<>> \/ \A k \in 1..Len(s) : s[k] # "/" THEN [Lat |-> Null, Lon |-> Null]
    ELSE LatLongOf(SplitOn(s, "/"))

parseLatLong(v) == LatLongIn(Trim(v))

-----------------------------------------------------------------------------
(* parseYearHeaderCell                                                     *)

S_CountDate       == <<"C", "o", "u", "n", "t", " ", "D", "a", "t", "e", ":">>
S_Participants    == <<"P", "a", "r", "t", "i", "c", "i", "p", "a", "n", "t", "s", ":">>
S_SpeciesReported == <<"S", "p", "e", "c", "i", "e", "s", " ", "R", "e", "p", "o", "r", "t", "e", "d", ":">>
S_TotalHrs        == <<"T", "o", "t", "a", "l", " ", "H", "r", "s", ".", ":">>

\* s.split('\n')[0] || ''
FirstLine(s) == SplitOn(s, NL)[1]

\* the head pattern without its century alternatives: any four digits as the year
HeadMatch_anyCentury(head) ==
    LET i == SkipSpaces(head, 1)
        j == SkipSpaces(head, i + 4)
        k == DigitRunEnd(head, j + 1)
    IN  IF /\ i + 3 <= Len(head)
           /\ \A d \in 0..3 : head[i + d] \in Digits
           /\ j <= Len(head) /\ head[j] = "["
           /\ k > j + 1
           /\ k <= Len(head) /\ head[k] = "]"
        THEN Some([year |-> SubSeq(head, i, i + 3), index |-> SubSeq(head, j + 1, k - 1)])
        ELSE Null

\* head.match(/^\s*(19\d{2}|20\d{2})\s*\[(\d+)\]/): Null, or the two groups
HeadMatch(head) ==
    LET i == SkipSpaces(head, 1)
        j == SkipSpaces(head, i + 4)
        k == DigitRunEnd(head, j + 1)
    IN  IF /\ i + 3 <= Len(head)
           /\ head[i] \in {"1", "2"}
           /\ head[i + 1] = (IF head[i] = "1" THEN "9" ELSE "0")
           /\ head[i + 2] \in Digits
           /\ head[i + 3] \in Digits
           /\ j <= Len(head) /\ head[j] = "["
           /\ k > j + 1
           /\ k <= Len(head) /\ head[k] = "]"
        THEN Some([year |-> SubSeq(head, i, i + 3), index |-> SubSeq(head, j + 1, k - 1)])
        ELSE Null

\* [0-9]{1,2}\/[0-9]{1,2}\/[0-9]{4} at q, its first digits ending at a and its
\* second at b: the index after the match, or 0
DateEndFrom(s, q, a, b) ==
    IF /\ a - q \in {1, 2} /\ a <= Len(s) /\ s[a] = "/"
       /\ b - (a + 1) \in {1, 2} /\ b <= Len(s) /\ s[b] = "/"
       /\ DigitRunEnd(s, b + 1) - (b + 1) >= 4
    THEN b + 5 ELSE 0

DateEndAfter(s, q, a) == DateEndFrom(s, q, a, DigitRunEnd(s, a + 1))

DateEnd(s, q) == DateEndAfter(s, q, DigitRunEnd(s, q))

\* where group 1 starts when the label starts at p: after the label and \s*
AfterLabel(s, p, label) == SkipSpaces(s, p + Len(label))

\* s.slice(from - 1, to - 1), or Null when there is no match (to = 0)
Group(s, from, to) == IF to = 0 THEN Null ELSE Some(SubSeq(s, from, to - 1))

\* /Count Date:\s*([0-9]{1,2}\/[0-9]{1,2}\/[0-9]{4})/ at p: the end of the match, or 0
CountDateEnd(s, p) ==
    IF StartsWithAt(s, p, S_CountDate) THEN DateEnd(s, AfterLabel(s, p, S_CountDate)) ELSE 0

CountDateAt(s, m) ==
    IF m = 0 THEN Null ELSE Group(s, AfterLabel(s, m, S_CountDate), CountDateEnd(s, m))

\* (mutant) the label counts only where it starts a line of the cell
MatchCountDate_lineStart(s) ==
    CountDateAt(s, LeastOrZero({p \in 2..Len(s) : CountDateEnd(s, p) # 0 /\ s[p - 1] = NL}))

\* s.match(/Count Date:\s*([0-9]{1,2}\/[0-9]{1,2}\/[0-9]{4})/): group 1 or Null
MatchCountDate(s) ==
    CountDateAt(s, LeastOrZero({p \in 1..Len(s) : CountDateEnd(s, p) # 0}))

\* where group 1 of /#\s*<label>\s*([0-9]+)/ starts when the # is at p
HashLabelStart(s, p, label) == AfterLabel(s, SkipSpaces(s, p + 1), label)

\* /#\s*<label>\s*([0-9]+)/ at p: the end of the match, or 0
HashLabelEnd(s, p, label) ==
    IF /\ s[p] = "#"
       /\ StartsWithAt(s, SkipSpaces(s, p + 1), label)
       /\ DigitRunEnd(s, HashLabelStart(s, p, label)) > HashLabelStart(s, p, label)
    THEN DigitRunEnd(s, HashLabelStart(s, p, label)) ELSE 0

HashLabelAt(s, m, label) ==
    IF m = 0 THEN Null ELSE Group(s, HashLabelStart(s, m, label), HashLabelEnd(s, m, label))

\* s.match(/#\s*<label>\s*([0-9]+)/): group 1 or Null
MatchHashLabelInt(s, label) ==
    HashLabelAt(s, LeastOrZero({p \in 1..Len(s) : HashLabelEnd(s, p, label) # 0}), label)

\* /Total Hrs\.:\s*([0-9]+(?:\.[0-9]+)?)/ at p: the end of the match, or 0
TotalHrsEnd(s, p) ==
    IF /\ StartsWithAt(s, p, S_TotalHrs)
       /\ DigitRunEnd(s, AfterLabel(s, p, S_TotalHrs)) > AfterLabel(s, p, S_TotalHrs)
    THEN SignedDecimalEnd(s, AfterLabel(s, p, S_TotalHrs)) ELSE 0

TotalHrsAt(s, m) ==
    IF m = 0 THEN Null ELSE Group(s, AfterLabel(s, m, S_TotalHrs), TotalHrsEnd(s, m))

\* s.match(/Total Hrs\.:\s*([0-9]+(?:\.[0-9]+)?)/): group 1 or Null
MatchTotalHrs(s) ==
    TotalHrsAt(s, LeastOrZero({p \in 1..Len(s) : TotalHrsEnd(s, p) # 0}))

\* parseInt(m[1], 10), or null without a match
GroupInt(m) == IF m = Null THEN Null ELSE parseInt(Val(m))

\* parseFloat(m[1]), or null without a match
GroupFloat(m) == IF m = Null THEN Null ELSE parseFloat(Val(m))

\* the record returned for the head match m (the two groups)
HeaderRecord(s, m) ==
    [Year               |-> parseInt(m.year),
     CountIndex         |-> parseInt(m.index),
     CountDate          |-> MatchCountDate(s),
     NumParticipants    |-> GroupInt(MatchHashLabelInt(s, S_Participants)),
     NumSpeciesReported |-> GroupInt(MatchHashLabelInt(s, S_SpeciesReported)),
     TotalHrs           |-> GroupFloat(MatchTotalHrs(s))]

\* if (!m) return null
HeaderOf(s, m) == IF m = Null THEN Null ELSE Some(HeaderRecord(s, Val(m)))

HeaderIn(s) == HeaderOf(s, HeadMatch(FirstLine(s)))

parseYearHeaderCell(c) == HeaderIn(normalizeNewlines(c))

-----------------------------------------------------------------------------
(* parseHistoricalResultsByCountCsv: the helpers of the metadata scans     *)

\* the caps parseHistoricalResultsByCountCsv passes to parseCsvText
HistMaxRows == 250000
HistMaxCols == 200

\* the rows the compiler scan and the circle scan look at
CompilerScanRows == 80
CircleScanRows == 50

UpperLetters == <<"A", "B", "C", "D", "E", "F", "G", "H", "I", "J", "K", "L", "M", "N", "O", "P", "Q", "R", "S", "T", "U", "V", "W", "X", "Y", "Z">>
LowerLetters == <<"a", "b", "c", "d", "e", "f", "g", "h", "i", "j", "k", "l", "m", "n", "o", "p", "q", "r", "s", "t", "u", "v", "w", "x", "y", "z">>

\* the sequence f, every element of it worked out
AsTuple(f) == <<>> \o f

\* String.prototype.toLowerCase
toLowerCase(s) ==
    AsTuple([k \in 1..Len(s) |->
        IF \E n \in 1..26 : UpperLetters[n] = s[k]
        THEN LowerLetters[CHOOSE n \in 1..26 : UpperLetters[n] = s[k]]
        ELSE s[k]])

\* String.prototype.includes
Includes(s, sub) == \E p \in 1..(Len(s) + 1) : StartsWithAt(s, p, sub)

\* r[j] of a row, j counted from 0 as in the code; '' stands for undefined,
\* which every use in the code treats as the empty string
At(r, j) == IF j + 1 <= Len(r) THEN r[j + 1] ELSE <<>>

\* rows[i] || [], i counted from 0
RowAt(rows, i) == IF i + 1 <= Len(rows) THEN rows[i + 1] ELSE <<>>

\* replace(/\s+/g, ' ') on s[lo..hi]: each run of white space becomes one space
RECURSIVE CollapseSpaces(_, _, _)
CollapseSpaces(s, lo, hi) ==
    IF lo > hi THEN <<>>
    ELSE IF lo = hi
         THEN (IF ~IsSpace(s[lo]) THEN <<s[lo]>>
               ELSE IF lo > 1 /\ IsSpace(s[lo - 1]) THEN <<>> ELSE <<SP>>)
         ELSE CollapseSpaces(s, lo, (lo + hi) \div 2)
                 \o CollapseSpaces(s, (lo + hi) \div 2 + 1, hi)

\* const norm = (v) => String(v ?? '').replace(/\s+/g, ' ').trim()
norm(v) == Trim(CollapseSpaces(v, 1, Len(v)))

\* the cells of r under norm, and those under toLowerCase
NormCells(r) == AsTuple([j \in 1..Len(r) |-> norm(r[j])])
LowerCells(nr) == AsTuple([j \in 1..Len(nr) |-> toLowerCase(nr[j])])

\* const firstNonEmptyAfter, on the cells nr = NormCells(r): Null, or the first
\* non-blank cell right of idx
firstNonEmptyAfter(nr, idx) ==
    LET later == {j \in (idx + 1)..(Len(nr) - 1) : At(nr, j) # <<>>}
    IN  IF later = {} THEN Null ELSE Some(At(nr, Min(later)))

\* cell.split(':').slice(1).join(':').trim()
AfterColon(c) ==
    LET colons == {k \in 1..Len(c) : c[k] = ":"}
    IN  IF colons = {} THEN <<>> ELSE Trim(From(c, Min(colons) + 1))

S_compilerfirstname == <<"c", "o", "m", "p", "i", "l", "e", "r", "f", "i", "r", "s", "t", "n", "a", "m", "e">>
S_compilerlastname  == <<"c", "o", "m", "p", "i", "l", "e", "r", "l", "a", "s", "t", "n", "a", "m", "e">>
S_compileremail     == <<"c", "o", "m", "p", "i", "l", "e", "r", "e", "m", "a", "i", "l">>
S_email             == <<"e", "m", "a", "i", "l">>
S_compilername      == <<"c", "o", "m", "p", "i", "l", "e", "r", "n", "a", "m", "e">>
S_compiler          == <<"c", "o", "m", "p", "i", "l", "e", "r">>
S_current_compiler  == <<"c", "u", "r", "r", "e", "n", "t", " ", "c", "o", "m", "p", "i", "l", "e", "r">>
S_CircleName        == <<"C", "i", "r", "c", "l", "e", "N", "a", "m", "e">>
S_Abbrev            == <<"A", "b", "b", "r", "e", "v">>
S_CountYear3        == <<"C", "o", "u", "n", "t", "Y", "e", "a", "r", "3">>
S_lowtemp           == <<"l", "o", "w", "t", "e", "m", "p">>
S_CountYear5        == <<"C", "o", "u", "n", "t", "Y", "e", "a", "r", "5">>
S_COM_NAME          == <<"C", "O", "M", "_", "N", "A", "M", "E">>
S_CountYear         == <<"C", "o", "u", "n", "t", "Y", "e", "a", "r">>

NoCountInfo ==
    [CountName |-> Null, CountCode |-> Null, CountId |-> Null, Lat |-> Null,
     Lon |-> Null, CompilerFirstName |-> Null, CompilerLastName |-> Null,
     CompilerName |-> Null, CompilerEmail |-> Null]

\* headerIndexes.get(kind) after the loop over the keys lr of a row: the last
\* column (from 0) whose key is one of keys, or -1 when headerIndexes has no
\* such kind
HeaderIndex(lr, keys) ==
    LET cols == {j \in 0..(Len(lr) - 1) : At(lr, j) \in keys}
    IN  IF cols = {} THEN -1 ELSE CHOOSE a \in cols : \A b \in cols : a >= b

\* norm(v[idx]) || old, when headerIndexes has the kind
FromNextRow(v, idx, old) ==
    IF idx = -1 \/ norm(At(v, idx)) = <<>> THEN old ELSE Some(norm(At(v, idx)))

\* the cell j is read as an inline "compiler email" label
IsEmailLabel(nr, lr, j) ==
    /\ At(nr, j) # <<>>
    /\ Includes(At(lr, j), S_compiler)
    /\ Includes(At(lr, j), S_email)

\* the cell j is read as an inline "compiler" label
IsNameLabel(nr, lr, j) ==
    /\ At(nr, j) # <<>>
    /\ ~IsEmailLabel(nr, lr, j)
    /\ StartsWithAt(At(lr, j), 1, S_compiler) \/ StartsWithAt(At(lr, j), 1, S_current_compiler)

\* const v = inline || firstNonEmptyAfter(r, j)
InlineValue(nr, j) ==
    LET inline == AfterColon(At(nr, j))
    IN  IF inline # <<>> THEN Some(inline) ELSE firstNonEmptyAfter(nr, j)

\* The second loop over the cells of r: the value of the last label cell that
\* has one is what the field holds after the loop; old when there is none.
InlineField(nr, lr, IsLabel(_, _, _), old) ==
    LET hits == {j \in 0..(Len(nr) - 1) : IsLabel(nr, lr, j) /\ InlineValue(nr, j) # Null}
    IN  IF hits = {} THEN old
        ELSE InlineValue(nr, CHOOSE a \in hits : \A b \in hits : a >= b)

\* One iteration of the compiler scan: nr and lr are the cells of rows[i]
\* under norm and under toLowerCase, v is rows[i + 1] || [].
CompilerScanCells(ci, nr, lr, v) ==
    LET first == FromNextRow(v, HeaderIndex(lr, {S_compilerfirstname}), ci.CompilerFirstName)
        last  == FromNextRow(v, HeaderIndex(lr, {S_compilerlastname}), ci.CompilerLastName)
        email == FromNextRow(v, HeaderIndex(lr, {S_compileremail, S_email}), ci.CompilerEmail)
        name  == FromNextRow(v, HeaderIndex(lr, {S_compilername, S_compiler}), ci.CompilerName)
    IN  [ci EXCEPT !.CompilerFirstName = first,
                   !.CompilerLastName  = last,
                   !.CompilerEmail     = InlineField(nr, lr, IsEmailLabel, email),
                   !.CompilerName      = InlineField(nr, lr, IsNameLabel, name)]

CompilerScanNorm(ci, nr, v) == CompilerScanCells(ci, nr, LowerCells(nr), v)

CompilerScanRow(ci, rows, i) ==
    CompilerScanNorm(ci, NormCells(RowAt(rows, i)), RowAt(rows, i + 1))

\* the iterations lo..hi of the compiler scan, in their order (the range is
\* halved, and the fields after its first half are settled before its second
\* half is entered, so that a long grid does not nest the evaluation deeply)
RECURSIVE CompilerScanRange(_, _, _, _)
CompilerScanRange(ci, rows, lo, hi) ==
    IF lo > hi THEN ci
    ELSE IF lo = hi THEN CompilerScanRow(ci, rows, lo)
    ELSE LET left == CompilerScanRange(ci, rows, lo, (lo + hi) \div 2)
         IN  IF left = ci THEN CompilerScanRange(ci, rows, (lo + hi) \div 2 + 1, hi)
             ELSE CompilerScanRange(left, rows, (lo + hi) \div 2 + 1, hi)

\* for (let i = 0; i < Math.min(rows.length, 80); i++), from row i on
CompilerScan(ci, rows, i) ==
    CompilerScanRange(ci, rows, i,
                      (IF Len(rows) < CompilerScanRows THEN Len(rows) ELSE CompilerScanRows) - 1)

\* the row is the marker CircleName, Abbrev
IsCircleMarker(r) == At(r, 0) = S_CircleName /\ At(r, 1) = S_Abbrev

\* String(v ?? '').trim() || null
TrimOrNull(v) == IF Trim(v) = <<>> THEN Null ELSE Some(Trim(v))

\* the four assignments from the row v below the marker, ll its position
CircleFill(ci, v, ll) ==
    [ci EXCEPT !.CountName = TrimOrNull(At(v, 0)),
               !.CountCode = TrimOrNull(At(v, 1)),
               !.Lat = ll.Lat,
               !.Lon = ll.Lon]

CircleRow(ci, v) == CircleFill(ci, v, parseLatLong(At(v, 2)))

\* (mutant) the last marker row of the window decides (no break)
CircleScan_lastMarker(ci, rows) ==
    LET marks == {i \in 0..(Len(rows) - 1) : i < CircleScanRows /\ IsCircleMarker(RowAt(rows, i))}
    IN  IF marks = {} THEN ci
        ELSE CircleRow(ci, RowAt(rows, (CHOOSE a \in marks : \A b \in marks : a >= b) + 1))

\* (mutant) the marker row is looked for in every row of the grid
CircleScan_unbounded(ci, rows) ==
    LET marks == {i \in 0..(Len(rows) - 1) : IsCircleMarker(RowAt(rows, i))}
    IN  IF marks = {} THEN ci ELSE CircleRow(ci, RowAt(rows, Min(marks) + 1))

\* for (let i = 0; i < Math.min(rows.length, 50); i++): the first marker row
\* of the window supplies name, code and position from the row below it
CircleScan(ci, rows) ==
    LET marks == {i \in 0..(Len(rows) - 1) : i < CircleScanRows /\ IsCircleMarker(RowAt(rows, i))}
    IN  IF marks = {} THEN ci ELSE CircleRow(ci, RowAt(rows, Min(marks) + 1))

-----------------------------------------------------------------------------
(* parseHistoricalResultsByCountCsv: the weather, participation and        *)
(* species sections                                                        *)

\* !CountIndex: null, or 0
Falsy(o) == o = Null \/ o = Some(0)

\* (mutant) a row whose first cell is not numeric-looking is passed over
\* (continue) instead of ending the section (break)
SectionDataRows_passesOver(rows, i) ==
    LET Keep(d) == d # <<>> /\ isNumericLike(At(d, 0)) /\ ~Falsy(parseMaybeInt(At(d, 0)))
    IN  SelectSeq(SubSeq(rows, i + 2, Len(rows)), Keep)

\* (mutant) a row whose index is null or 0 ends the section (break) instead
\* of being passed over (continue)
SectionDataRows_endsOnZero(rows, i) ==
    LET stops == {j \in (i + 1)..(Len(rows) - 1) :
                     \/ RowAt(rows, j) = <<>>
                     \/ ~isNumericLike(At(RowAt(rows, j), 0))
                     \/ Falsy(parseMaybeInt(At(RowAt(rows, j), 0)))}
    IN  SubSeq(rows, i + 2, IF stops = {} THEN Len(rows) ELSE Min(stops))

\* The data rows of a section whose sentinel is rows[i] (i from 0): the rows
\* below it, up to the first one that is empty or whose first cell is not
\* numeric-looking, without those whose index is null or 0 (continue).
SectionDataRows(rows, i) ==
    LET stops == {j \in (i + 1)..(Len(rows) - 1) :
                     RowAt(rows, j) = <<>> \/ ~isNumericLike(At(RowAt(rows, j), 0))}
        end   == IF stops = {} THEN Len(rows) ELSE Min(stops)
        Keep(d) == ~Falsy(parseMaybeInt(At(d, 0)))
    IN  SelectSeq(SubSeq(rows, i + 2, end), Keep)

IsWeatherSentinel(r) ==
    At(r, 0) = S_CountYear3 /\ Includes(toLowerCase(At(r, 1)), S_lowtemp)

WeatherRecord(d) ==
    [CountIndex |-> parseMaybeInt(At(d, 0)),
     LowTempF   |-> parseTempFString(At(d, 1)),
     HighTempF  |-> parseTempFString(At(d, 2)),
     AMClouds   |-> At(d, 3), PMClouds |-> At(d, 4),
     AMRain     |-> At(d, 5), PMRain   |-> At(d, 6),
     AMSnow     |-> At(d, 7), PMSnow   |-> At(d, 8)]

\* the loop that fills weatherRaw: only the first sentinel row counts (break)
WeatherScan(rows) ==
    LET marks == {i \in 0..(Len(rows) - 1) : IsWeatherSentinel(RowAt(rows, i))}
    IN  IF marks = {} THEN <<>>
        ELSE LET data == SectionDataRows(rows, Min(marks))
             IN  [k \in 1..Len(data) |-> WeatherRecord(data[k])]

IsParticipationSentinel(r) == At(r, 0) = S_CountYear5

ParticipationRecord(d) ==
    [CountIndex         |-> parseMaybeInt(At(d, 0)),
     CountDate          |-> TrimOrNull(At(d, 1)),
     Year               |-> Null,
     NumParticipants    |-> parseMaybeInt(At(d, 2)),
     NumHours           |-> parseMaybeFloat(At(d, 3)),
     NumSpeciesReported |-> parseMaybeInt(At(d, 4))]

\* the loop that fills participantsEffort
ParticipationScan(rows) ==
    LET marks == {i \in 0..(Len(rows) - 1) : IsParticipationSentinel(RowAt(rows, i))}
    IN  IF marks = {} THEN <<>>
        ELSE LET data == SectionDataRows(rows, Min(marks))
             IN  [k \in 1..Len(data) |-> ParticipationRecord(data[k])]

IsSpeciesSentinel(r) == At(r, 0) = S_COM_NAME /\ At(r, 1) = S_CountYear

\* (mutant) speciesSectionStart initialised to 0 instead of -1
SpeciesSectionStart_fromZero(rows) ==
    LET marks == {i \in 0..(Len(rows) - 1) : At(RowAt(rows, i), 0) = S_COM_NAME
                                               /\ At(RowAt(rows, i), 1) = S_CountYear}
    IN  IF marks = {} THEN 0 ELSE Min(marks) + 1

\* speciesSectionStart (a row index from 0), -1 when no sentinel row is found
SpeciesSectionStart(rows) ==
    LET marks == {i \in 0..(Len(rows) - 1) : IsSpeciesSentinel(RowAt(rows, i))}
    IN  IF marks = {} THEN -1 ELSE Min(marks) + 1

\* (mutant) the species cell tested as it stands, not trimmed
SpeciesRowAccepted_untrimmed(d) ==
    /\ At(d, 0) # <<>>
    /\ At(d, 1) # <<>>
    /\ LET yh == parseYearHeaderCell(At(d, 1))
       IN  yh # Null /\ Val(yh).CountIndex # Null /\ Val(yh).Year # Null

\* !(!yh || yh.CountIndex === null || yh.Year === null)
HeaderUsable(yh) == yh # Null /\ Val(yh).CountIndex # Null /\ Val(yh).Year # Null

\* a data row of the species section passes both continue tests
SpeciesRowAccepted(d) ==
    /\ Trim(At(d, 0)) # <<>>
    /\ At(d, 1) # <<>>
    /\ HeaderUsable(parseYearHeaderCell(At(d, 1)))

\* const species = speciesRaw.split('\n')[0].trim()
SpeciesName(d) == Trim(FirstLine(Trim(At(d, 0))))

\* const countVal = parseMaybeInt(d[2]) ?? 0
CountVal(d) ==
    IF parseMaybeInt(At(d, 2)) = Null THEN 0 ELSE Val(parseMaybeInt(At(d, 2)))

\* participantsEffort.find((r) => r.CountIndex === CountIndex): its position, or 0
FindByIndex(pe, idx) ==
    LET hits == {k \in 1..Len(pe) : pe[k].CountIndex = idx}
    IN  IF hits = {} THEN 0 ELSE Min(hits)

\* (mutant) what the header carries replaces what the record holds
FillGaps_overwrites(e, yh) ==
    [e EXCEPT
        !.CountDate = IF yh.CountDate # Null THEN yh.CountDate ELSE @,
        !.NumParticipants = IF yh.NumParticipants # Null THEN yh.NumParticipants ELSE @,
        !.NumSpeciesReported =
            IF yh.NumSpeciesReported # Null THEN yh.NumSpeciesReported ELSE @,
        !.NumHours = IF yh.TotalHrs # Null THEN yh.TotalHrs ELSE @]

\* the four gap-filling assignments on the record found
FillGaps(e, yh) ==
    [e EXCEPT
        !.CountDate = IF @ = Null /\ yh.CountDate # Null THEN yh.CountDate ELSE @,
        !.NumParticipants =
            IF @ = Null /\ yh.NumParticipants # Null THEN yh.NumParticipants ELSE @,
        !.NumSpeciesReported =
            IF @ = Null /\ yh.NumSpeciesReported # Null THEN yh.NumSpeciesReported ELSE @,
        !.NumHours = IF @ = Null /\ yh.TotalHrs # Null THEN yh.TotalHrs ELSE @]

\* countsBySpecies.get(species): its position in insertion order, or 0
FindSpecies(counts, name) ==
    LET hits == {k \in 1..Len(counts) : counts[k].Species = name}
    IN  IF hits = {} THEN 0 ELSE Min(hits)

\* (mutant) a count already there for the year is added to, not replaced
SetCount_summed(counts, name, year, n) ==
    LET k == FindSpecies(counts, name) IN
    IF k = 0
    THEN Append(counts, [Species |-> name, byYear |-> [y \in {year} |-> n]])
    ELSE [counts EXCEPT ![k].byYear =
             [y \in (DOMAIN @) \cup {year} |->
                 IF y # year THEN @[y] ELSE IF y \in DOMAIN @ THEN @[y] + n ELSE n]]

\* m.set(Year, countVal) on the map of the species, created when missing
SetCount(counts, name, year, n) ==
    LET k == FindSpecies(counts, name) IN
    IF k = 0
    THEN Append(counts, [Species |-> name, byYear |-> [y \in {year} |-> n]])
    ELSE [counts EXCEPT ![k].byYear =
             [y \in (DOMAIN @) \cup {year} |-> IF y = year THEN n ELSE @[y]]]

\* The locals the species loop changes.
SpeciesStart(pe) ==
    [meta |-> <<>>, metaSeen |-> {}, participantsEffort |-> pe, counts |-> <<>>]

\* the meta record pushed for a CountIndex seen for the first time
MetaRecord(yh) ==
    [CountIndex |-> yh.CountIndex, Year |-> yh.Year, CountDate |-> yh.CountDate]

\* (mutant) the meta record is pushed for every accepted row, seen or not
SpeciesRowWith_pushAlways(st, d, yh) ==
    LET k == FindByIndex(st.participantsEffort, yh.CountIndex)
    IN  [meta     |-> Append(st.meta, MetaRecord(yh)),
         metaSeen |-> st.metaSeen \cup {yh.CountIndex},
         participantsEffort |->
             IF k = 0 THEN st.participantsEffort
             ELSE [st.participantsEffort EXCEPT ![k] = FillGaps(@, yh)],
         counts   |-> SetCount(st.counts, SpeciesName(d), Val(yh.Year), CountVal(d))]

\* One iteration of the species loop on an accepted data row d, yh its
\* parsed header.
SpeciesRowWith(st, d, yh) ==
    LET new == yh.CountIndex \notin st.metaSeen
        k   == FindByIndex(st.participantsEffort, yh.CountIndex)
    IN  [meta     |-> IF new THEN Append(st.meta, MetaRecord(yh)) ELSE st.meta,
         metaSeen |-> st.metaSeen \cup {yh.CountIndex},
         participantsEffort |->
             IF k = 0 THEN st.participantsEffort
             ELSE [st.participantsEffort EXCEPT ![k] = FillGaps(@, yh)],
         counts   |-> SetCount(st.counts, SpeciesName(d), Val(yh.Year), CountVal(d))]

SpeciesRow(st, d) == SpeciesRowWith(st, d, Val(parseYearHeaderCell(At(d, 1))))

\* for (let j = speciesSectionStart; j < rows.length; j++), from row j on
RECURSIVE SpeciesLoop(_, _, _)
SpeciesLoop(st, rows, j) ==
    IF j >= Len(rows) \/ RowAt(rows, j) = <<>> THEN st
    ELSE IF ~SpeciesRowAccepted(RowAt(rows, j)) THEN SpeciesLoop(st, rows, j + 1)
    ELSE SpeciesLoop(SpeciesRow(st, RowAt(rows, j)), rows, j + 1)

SpeciesScan(rows, pe) ==
    IF SpeciesSectionStart(rows) = -1 THEN SpeciesStart(pe)
    ELSE SpeciesLoop(SpeciesStart(pe), rows, SpeciesSectionStart(rows))

\* Array.from(set).sort((a, b) => a - b)
SortedSeq(S) ==
    [i \in 1..Cardinality(S) |-> CHOOSE y \in S : Cardinality({z \in S : z < y}) = i - 1]

\* (mutant) the years of meta in the order of meta, neither sorted nor made unique
uniqueSortedYearsFromMeta_asPushed(meta) ==
    LET kept == {n \in 1..Len(meta) : meta[n].Year # Null}
    IN  [i \in 1..Cardinality(kept) |->
            Val(meta[CHOOSE n \in kept : Cardinality({z \in kept : z < n}) = i - 1].Year)]

uniqueSortedYearsFromMeta(meta) ==
    SortedSeq({Val(meta[k].Year) : k \in {n \in 1..Len(meta) : meta[n].Year # Null}})

\* (mutant) a key for every year of years, 0 where the species has no count
SpeciesTableRecord_zeroFilled(c, years) ==
    [Species |-> c.Species,
     counts  |-> [y \in {years[k] : k \in 1..Len(years)} |->
                     IF y \in DOMAIN c.byYear THEN c.byYear[y] ELSE 0]]

\* the record of one species: a key for each year of years its map has
SpeciesTableRecord(c, years) ==
    [Species |-> c.Species,
     counts  |-> [y \in {years[k] : k \in 1..Len(years)} \cap DOMAIN c.byYear |-> c.byYear[y]]]

\* the returned object: sp holds the locals after the species loop
Result(rows, sp, years) ==
    [thrown             |-> "none",
     countInfo          |-> CircleScan(CompilerScan(NoCountInfo, rows, 0), rows),
     meta               |-> sp.meta,
     participantsEffort |-> sp.participantsEffort,
     weatherRaw         |-> WeatherScan(rows),
     speciesTable       |-> [k \in 1..Len(sp.counts) |-> SpeciesTableRecord(sp.counts[k], years)],
     years              |-> years]

ResultOf(rows, sp) == Result(rows, sp, uniqueSortedYearsFromMeta(sp.meta))

\* everything after the call of parseCsvText
Extract(rows) == ResultOf(rows, SpeciesScan(rows, ParticipationScan(rows)))

\* a throw of parseCsvText ends the call; its rows are extracted otherwise
ExtractLexed(lexed) == IF lexed.thrown # "none" THEN lexed ELSE Extract(lexed.rows)

parseHistoricalResultsByCountCsv(t) ==
    ExtractLexed(parseCsvText(t, HistMaxRows, HistMaxCols))

-----------------------------------------------------------------------------
(* The extraction called on a text of a few lines, each line one of the    *)
(* rows an export holds: sentinel rows and data rows of every section      *)

MaxLines == 3

T_SpeciesSentinel  == <<"C", "O", "M", "_", "N", "A", "M", "E", ",", "C", "o", "u", "n", "t", "Y", "e", "a", "r">>
T_SpeciesRow       == <<"A", ",", "1", "9", "9", "9", "[", "1", "]", ",", "5">>
T_WeatherSentinel  == <<"C", "o", "u", "n", "t", "Y", "e", "a", "r", "3", ",", "L", "o", "w", "T", "e", "m", "p">>
T_WeatherRow       == <<"3", ",", "2", "8", ".", "4", "F", ",", "4", "1", ",", "C", "l", "o", "u", "d", "y">>
T_WeatherNearMiss  == <<"C", "o", "u", "n", "t", "Y", "e", "a", "r", "3", ",", "H", "i", "g", "h">>
T_PartSentinel     == <<"C", "o", "u", "n", "t", "Y", "e", "a", "r", "5">>
T_PartRow          == <<"1", ",", "1", "2", "/", "2", "7", "/", "1", "9", "9", "8", ",", "1", "0", ",", "6", ".", "5", ",", "4", "0">>
T_CircleMarker     == <<"C", "i", "r", "c", "l", "e", "N", "a", "m", "e", ",", "A", "b", "b", "r", "e", "v">>
T_CircleRow        == <<"F", "o", "o", ",", "F", "O", ",", "3", "8", ".", "5", "/", "-", "1", "2", "1">>
T_CompilerRow      == <<"C", "o", "m", "p", "i", "l", "e", "r", ":", " ", "J", "o", ",", "x">>

MixedLines ==
    {T_SpeciesSentinel, T_SpeciesRow, T_WeatherSentinel, T_WeatherRow, T_WeatherNearMiss,
     T_PartSentinel, T_PartRow, T_CircleMarker, T_CircleRow, T_CompilerRow, <<>>}

RECURSIVE LinesOfLen(_, _)
LinesOfLen(V, n) ==
    IF n = 0 THEN {<<>>}
    ELSE {Append(t, l) : t \in LinesOfLen(V, n - 1), l \in V}

\* lines.join('\n')
RECURSIVE JoinLines(_)
JoinLines(ls) ==
    IF ls = <<>> THEN <<>>
    ELSE IF Len(ls) = 1 THEN ls[1]
    ELSE ls[1] \o <<NL>> \o JoinLines(Tail(ls))

Init ==
    /\ pc = "ready"
    /\ call = "parseHistoricalResultsByCountCsv"
    /\ written \in UNION {LinesOfLen(MixedLines, n) : n \in 0..MaxLines}
    /\ text = JoinLines(written)
    /\ maxRows = HistMaxRows
    /\ maxCols = HistMaxCols
    /\ cell = <<>>
    /\ out = Null
    /\ AppIdle

CallParseHistorical ==
    /\ pc = "ready"
    /\ call = "parseHistoricalResultsByCountCsv"
    /\ out' = parseHistoricalResultsByCountCsv(text)
    /\ pc' = "done"
    /\ UNCHANGED <<call, text, maxRows, maxCols, cell, written, yearsPresent, calls, file, state, store, saves>>

Next == CallParseHistorical

Spec == Init /\ [][Next]_vars

Returns == pc = "done" /\ out.thrown = "none"

\* the grid of rows the lexer makes of the text, whatever its size
Grid == parseCsvText(text, Len(text) + 1, Len(text) + 1).rows

\* some row of the grid g has c1 as its first cell and a second cell P accepts
SomeRow(g, c1, P(_)) ==
    \E k \in 1..Len(g) : g[k][1] = c1 /\ P(IF Len(g[k]) >= 2 THEN g[k][2] ELSE <<>>)

HasWeatherSentinel(g) ==
    LET IsLowTemp(c) ==
            \E p \in 1..Len(c) :
                p + 6 <= Len(c) /\ SubSeq(toLowerCase(c), p, p + 6) = S_lowtemp
    IN  SomeRow(g, S_CountYear3, IsLowTemp)

HasParticipationSentinel(g) == LET AnyCell(c) == TRUE IN SomeRow(g, S_CountYear5, AnyCell)

HasSpeciesSentinel(g) == LET IsCountYear(c) == c = S_CountYear IN SomeRow(g, S_COM_NAME, IsCountYear)

\* line l2 comes right after the first line l1 of the text
Follows(l1, l2) ==
    \E k \in 1..(Len(written) - 1) :
        /\ written[k] = l1 /\ written[k + 1] = l2
        /\ \A j \in 1..(k - 1) : written[j] # l1

\* C4: a section whose sentinel row never occurs yields an empty list, and the
\* sections whose sentinel does occur are still extracted; the empty text
\* yields empty lists and a countInfo of nulls.
C4_MissingSectionsAreEmpty ==
    Returns =>
        /\ LET g == Grid
           IN  /\ ~HasWeatherSentinel(g) => out.weatherRaw = <<>>
               /\ ~HasParticipationSentinel(g) => out.participantsEffort = <<>>
               /\ ~HasSpeciesSentinel(g) =>
                     out.meta = <<>> /\ out.speciesTable = <<>> /\ out.years = <<>>
        /\ Follows(T_WeatherSentinel, T_WeatherRow) => Len(out.weatherRaw) >= 1
        /\ Follows(T_PartSentinel, T_PartRow) => Len(out.participantsEffort) >= 1
        /\ Follows(T_SpeciesSentinel, T_SpeciesRow) =>
              Len(out.meta) = 1 /\ Len(out.speciesTable) = 1 /\ out.years = <<1999>>
        /\ text = <<>> =>
              /\ out.meta = <<>> /\ out.participantsEffort = <<>> /\ out.weatherRaw = <<>>
              /\ out.speciesTable = <<>> /\ out.years = <<>>
              /\ out.countInfo = NoCountInfo

\* a text with data rows of all three sections and only the species sentinel
\* has been extracted: its species section is there, the other two are empty
C4_Witness ==
    /\ Returns
    /\ written = <<T_WeatherRow, T_SpeciesSentinel, T_SpeciesRow>>
    /\ ~HasWeatherSentinel(Grid) /\ ~HasParticipationSentinel(Grid) /\ HasSpeciesSentinel(Grid)
    /\ out.weatherRaw = <<>> /\ out.participantsEffort = <<>>
    /\ Len(out.speciesTable) = 1

-----------------------------------------------------------------------------
(* The extraction called on a text with one row about as wide as the       *)
(* column cap: a row of commas, with or without cells around them, in or   *)
(* out of quotes, with or without a species section after it               *)

MaxOver == 2

T_OddSpeciesRow == <<"B", ",", "x", ",", "c", "w">>

CapsLeads == {<<>>, <<"a", NL>>, <<QUOTE>>}
CapsHeads == {<<>>, <<"a">>}
CapsTails == {<<>>, <<"b">>, <<SP>>, <<NL, "b">>}
CapsRests == {<<>>, <<NL>> \o T_SpeciesSentinel \o <<NL>> \o T_OddSpeciesRow}

Commas(n) == [i \in 1..n |-> COMMA]

CapsTexts ==
    {l \o h \o Commas(n) \o t \o r :
        l \in CapsLeads, h \in CapsHeads,
        n \in (HistMaxCols - 3)..(HistMaxCols + MaxOver - 1),
        t \in CapsTails, r \in CapsRests}

InitCaps ==
    /\ pc = "ready"
    /\ call = "parseHistoricalResultsByCountCsv"
    /\ text \in CapsTexts
    /\ maxRows = HistMaxRows
    /\ maxCols = HistMaxCols
    /\ cell = <<>>
    /\ written = <<>>
    /\ out = Null
    /\ AppIdle

NextCaps == CallParseHistorical

SpecCaps == InitCaps /\ [][NextCaps]_vars

\* s[i] is outside quotes: an even number of quote characters comes before it
Outside(s, i) == Cardinality({q \in 1..(i - 1) : s[q] = QUOTE}) % 2 = 0

\* the positions of the newlines that end a row, and of the commas that end a
\* field
RowEnds(s) == {i \in 1..Len(s) : s[i] = NL /\ Outside(s, i)}
FieldEnds(s) == {i \in 1..Len(s) : s[i] = COMMA /\ Outside(s, i)}

\* the numbers of fields of the rows of s, every field counted, blank trailing
\* ones included
RawWidths(s) ==
    LET ends == RowEnds(s) \cup {Len(s) + 1}
        seps == FieldEnds(s)
        From0(b) == IF \E a \in ends : a < b
                    THEN CHOOSE a \in ends : a < b /\ \A c \in ends : c < b => c <= a
                    ELSE 0
    IN  {Cardinality({c \in seps : From0(b) < c /\ c < b}) + 1 : b \in ends}

\* C1 as stated: with at most 250000 rows, each of at most 200 fields once its
\* trailing blank fields are discarded, the extraction returns and never throws.
C1_NoThrowWithinTrimmedCaps ==
    (/\ pc = "done"
     /\ Len(Grid) <= 250000
     /\ \A k \in 1..Len(Grid) : Len(Grid[k]) <= 200)
        => out.thrown = "none"

\* C1 (amended): with at most 250000 rows, each of at most 200 fields counted
\* before its trailing blank fields are discarded, the extraction returns and
\* never throws, whatever the cells hold.
C1_NoThrowWithinRawCaps ==
    (/\ pc = "done"
     /\ Cardinality(RowEnds(normalizeNewlines(text))) + 1 <= 250000
     /\ \A w \in RawWidths(normalizeNewlines(text)) : w <= 200)
        => out.thrown = "none"

\* a text whose widest row has exactly 200 fields, the last of them blank, and
\* that carries a species row with a malformed header has been extracted
C1_Witness ==
    /\ pc = "done"
    /\ text = <<"a">> \o Commas(199) \o <<SP>> \o <<NL>> \o T_SpeciesSentinel
                 \o <<NL>> \o T_OddSpeciesRow
    /\ 200 \in RawWidths(normalizeNewlines(text))
    /\ out.thrown = "none"
    /\ out.speciesTable = <<>>

-----------------------------------------------------------------------------
(* The lexer called on its own: every text over a small alphabet           *)

MaxLen == 5

LexAlphabet == {"a", COMMA, NL, QUOTE, SP}

CapChoices == {1, 2}

RECURSIVE TextsOfLen(_)
TextsOfLen(n) ==
    IF n = 0 THEN {<<>>}
    ELSE {Append(t, c) : t \in TextsOfLen(n - 1), c \in LexAlphabet}

LexTexts == UNION {TextsOfLen(n) : n \in 0..MaxLen}

InitLex ==
    /\ pc = "ready"
    /\ call = "parseCsvText"
    /\ text \in LexTexts
    /\ maxRows \in CapChoices
    /\ maxCols \in CapChoices
    /\ cell = <<>>
    /\ written = <<>>
    /\ out = Null
    /\ AppIdle

CallParseCsvText ==
    /\ pc = "ready"
    /\ call = "parseCsvText"
    /\ out' = parseCsvText(text, maxRows, maxCols)
    /\ pc' = "done"
    /\ UNCHANGED <<call, text, maxRows, maxCols, cell, written, yearsPresent, calls, file, state, store, saves>>

NextLex == CallParseCsvText

SpecLex == InitLex /\ [][NextLex]_vars

\* C2: parseCsvText throws when a row has more than maxCols fields, so no row
\* of a grid it returns has more than maxCols fields.
C2_NoRowWiderThanMaxCols ==
    (pc = "done" /\ out.thrown = "none")
        => \A k \in 1..Len(out.rows) : Len(out.rows[k]) <= maxCols

\* C3: parseCsvText throws when the non-empty rows outnumber maxRows, with or
\* without a trailing newline, so a grid it returns has at most maxRows rows.
C3_NoMoreThanMaxRows ==
    (pc = "done" /\ out.thrown = "none") => Len(out.rows) <= maxRows

-----------------------------------------------------------------------------
(* The header parser called on its own: cells put together from a lead, a  *)
(* year, a gap, an index and a rest, most of them near misses of a header  *)

L_CountDate       == <<"\n", "C", "o", "u", "n", "t", " ", "D", "a", "t", "e", ":", " ", "1", "2", "/", "2", "7", "/", "1", "9", "8", "7">>
L_Participants    == <<"\n", "#", " ", "P", "a", "r", "t", "i", "c", "i", "p", "a", "n", "t", "s", ":", " ", "4", "2">>
L_SpeciesReported == <<"\n", "#", " ", "S", "p", "e", "c", "i", "e", "s", " ", "R", "e", "p", "o", "r", "t", "e", "d", ":", " ", "8", "7">>
L_TotalHrs        == <<"\n", "T", "o", "t", "a", "l", " ", "H", "r", "s", ".", ":", " ", "6", ".", "5">>

HdrLeads == {<<>>, <<" ">>, <<"\t", " ">>, <<"x">>, <<NL>>}
HdrYears == {<<"1", "9", "8", "7">>, <<"2", "0", "0", "1">>, <<"1", "9", "0", "0">>, <<"2", "0", "9", "9">>, <<"1", "8", "9", "9">>, <<"2", "1", "0", "0">>, <<"1", "9", "8">>, <<"1", "9", "a", "7">>, <<"0", "9", "8", "7">>}
HdrGaps  == {<<>>, <<" ">>, <<" ", " ">>, <<"x">>, <<"7">>, <<NL>>, <<CR>>}
HdrIdxs  == {<<"[", "3", "]">>, <<"[", "1", "2", "]">>, <<"[", "0", "]">>, <<"[", "]">>, <<"[", "x", "]">>, <<"[", "3">>, <<"3", "]">>, <<"[", "-", "1", "]">>, <<"[", " ", "3", "]">>, <<"(", "3", ")">>, <<"[", "3", "x", "]">>}
HdrRests == {<<>>, <<"x">>, <<"]">>,
             L_CountDate \o L_Participants \o L_SpeciesReported \o L_TotalHrs,
             L_TotalHrs \o L_Participants,
             <<" ">> \o Tail(L_SpeciesReported) \o <<CR>> \o L_CountDate}

HdrCells ==
    {a \o y \o g \o x \o r :
        a \in HdrLeads, y \in HdrYears, g \in HdrGaps, x \in HdrIdxs, r \in HdrRests}

InitHdr ==
    /\ pc = "ready"
    /\ call = "parseYearHeaderCell"
    /\ cell \in HdrCells
    /\ text = <<>>
    /\ maxRows = 0
    /\ maxCols = 0
    /\ written = <<>>
    /\ out = Null
    /\ AppIdle

CallParseYearHeaderCell ==
    /\ pc = "ready"
    /\ call = "parseYearHeaderCell"
    /\ out' = parseYearHeaderCell(cell)
    /\ pc' = "done"
    /\ UNCHANGED <<call, text, maxRows, maxCols, cell, written, yearsPresent, calls, file, state, store, saves>>

NextHdr == CallParseYearHeaderCell

SpecHdr == InitHdr /\ [][NextHdr]_vars

\* the characters of c before its first line break
LineOne(c) ==
    LET breaks == {k \in 1..Len(c) : c[k] \in {NL, CR}}
    IN  IF breaks = {} THEN c ELSE SubSeq(c, 1, Min(breaks) - 1)

\* the number a string of digits writes, read from the left
RECURSIVE Numeral(_, _)
Numeral(ds, acc) ==
    IF ds = <<>> THEN acc ELSE Numeral(Tail(ds), 10 * acc + DigitVal(Head(ds)))

\* h[i..i+3] is a year of 1900..2099 and only white space comes before it
YearAt(h, i) ==
    /\ 1 <= i /\ i + 3 <= Len(h)
    /\ \A a \in 1..(i - 1) : IsSpace(h[a])
    /\ \A a \in i..(i + 3) : h[a] \in Digits
    /\ Numeral(SubSeq(h, i, i + 3), 0) \in 1900..2099

\* h[j] is the "[" that follows the year at i, with only white space between
BracketAt(h, i, j) ==
    /\ i + 4 <= j /\ j <= Len(h)
    /\ \A a \in (i + 4)..(j - 1) : IsSpace(h[a])
    /\ h[j] = "["

\* h[k] is the "]" that closes the bracket at j, with digits, and only digits,
\* between them
IndexEnds(h, j, k) ==
    /\ j + 1 < k /\ k <= Len(h)
    /\ \A a \in (j + 1)..(k - 1) : h[a] \in Digits
    /\ h[k] = "]"

\* the headers h can be read as: the positions <<i, j, k>> of its year, of its
\* "[" and of its "]"
HeaderReadings(h) ==
    UNION {UNION {{<<i, j, k>> : k \in {c \in 1..Len(h) : IndexEnds(h, j, c)}}
                     : j \in {b \in 1..Len(h) : BracketAt(h, i, b)}}
              : i \in {a \in 1..Len(h) : YearAt(h, a)}}

-----------------------------------------------------------------------------
(* The lexer called on a text written from a grid of cells, every cell     *)
(* quoted and its quotes doubled                                           *)

MaxCellLen == 3

CellAlphabet == {"a", COMMA, NL, QUOTE}

RECURSIVE CellsOfLen(_)
CellsOfLen(n) ==
    IF n = 0 THEN {<<>>}
    ELSE {Append(t, c) : t \in CellsOfLen(n - 1), c \in CellAlphabet}

WrittenCells == UNION {CellsOfLen(n) : n \in 0..MaxCellLen}

ShortCells == UNION {CellsOfLen(n) : n \in 0..(MaxCellLen - 1)}

\* one row of one or two cells, or two rows of one cell
WrittenGrids ==
    {<<<<f>>>> : f \in WrittenCells}
      \cup {<<<<f, g>>>> : f \in WrittenCells, g \in ShortCells}
      \cup {<<<<f>>, <<g>>>> : f \in WrittenCells, g \in ShortCells}

RECURSIVE DoubleQuotes(_)
DoubleQuotes(f) ==
    IF f = <<>> THEN <<>>
    ELSE (IF Head(f) = QUOTE THEN <<QUOTE, QUOTE>> ELSE <<Head(f)>>)
             \o DoubleQuotes(Tail(f))

WriteCell(f) == <<QUOTE>> \o DoubleQuotes(f) \o <<QUOTE>>

RECURSIVE WriteRow(_)
WriteRow(r) ==
    IF Len(r) = 1 THEN WriteCell(r[1])
    ELSE WriteCell(r[1]) \o <<COMMA>> \o WriteRow(Tail(r))

RECURSIVE WriteCsv(_)
WriteCsv(g) ==
    IF Len(g) = 1 THEN WriteRow(g[1])
    ELSE WriteRow(g[1]) \o <<NL>> \o WriteCsv(Tail(g))

InitQuote ==
    /\ pc = "ready"
    /\ call = "parseCsvText"
    /\ written \in WrittenGrids
    /\ text = WriteCsv(written)
    /\ maxRows = 2
    /\ maxCols = 2
    /\ cell = <<>>
    /\ out = Null
    /\ AppIdle

NextQuote == CallParseCsvText

SpecQuote == InitQuote /\ [][NextQuote]_vars

\* The rows of a grid once blank trailing cells and empty rows are dropped.
RECURSIVE KeptRows(_)
KeptRows(g) ==
    IF g = <<>> THEN <<>>
    ELSE LET r == g[Len(g)]
             last == CHOOSE n \in 0..Len(r) :
                        /\ \A k \in (n + 1)..Len(r) : \A j \in 1..Len(r[k]) : IsSpace(r[k][j])
                        /\ n > 0 => \E j \in 1..Len(r[n]) : ~IsSpace(r[n][j])
         IN  KeptRows(SubSeq(g, 1, Len(g) - 1))
               \o (IF last = 0 THEN <<>> ELSE <<SubSeq(r, 1, last)>>)

\* C5: inside quotes a doubled quote is one literal quote and every other
\* character, comma and newline included, is literal; outside quotes a comma
\* ends the field and a newline ends the row.  So a text written by quoting
\* every cell lexes back to the cells it was written from.
C5_QuotedCellsLexBack ==
    pc = "done" => out = Returned(KeptRows(written))

\* a row of the two cells a"a and ,a has been lexed from its quoted form
C5_Witness ==
    /\ pc = "done"
    /\ written = <<<<<<"a", QUOTE, "a">>, <<COMMA, "a">>>>>>
    /\ text = <<QUOTE, "a", QUOTE, QUOTE, "a", QUOTE, COMMA,
                QUOTE, COMMA, "a", QUOTE>>
    /\ out = Returned(written)

-----------------------------------------------------------------------------
(* The extraction called on a species section: the sentinel row and a few  *)
(* data rows, after nothing or after a weather and a participation section *)

MaxSpeciesRows == 3

R_A1999  == <<<<"A">>, <<"1", "9", "9", "9", "[", "1", "]">>, <<"5">>>>
R_B2000  == <<<<"B">>, <<"2", "0", "0", "0", "[", "2", "]">>, <<"c", "w">>>>
R_A2000  == <<<<"A">>, <<"2", "0", "0", "0", "[", "1", "]">>, <<"7">>>>
R_A1999n == <<<<"A">>, <<"1", "9", "9", "9", SP, "[", "5", "]">> \o L_CountDate>>
R_Blank  == <<<<SP>>, <<"1", "9", "9", "9", "[", "3", "]">>, <<"3">>>>
R_BadHdr == <<<<"B">>, <<"x">>, <<"3">>>>
R_Lines  == <<<<"C", SP, NL, "z">>,
              <<"2", "0", "0", "1", SP, "[", "5", "]", NL, "C", "o", "u", "n", "t", SP, "D", "a", "t", "e", ":", SP, "1", "/", "2", "/", "2", "0", "0", "1">>,
              <<SP, "1", "2", "a">>>>
R_NoHdr  == <<<<"C">>, <<>>, <<"4">>>>

SpeciesRows ==
    {R_A1999, R_B2000, R_A2000, R_A1999n, R_Blank, R_BadHdr, R_Lines, R_NoHdr, <<>>}

\* a weather and a participation section, each with a row of index 0 first
T_ZeroWeatherRow == <<"0", ",", "1", ",", "2">>
T_ZeroPartRow    == <<"0", ".", "5", ",", "x">>

SpeciesLeads ==
    {<<>>,
     T_WeatherSentinel \o <<NL>> \o T_ZeroWeatherRow \o <<NL>> \o T_WeatherRow \o <<NL>>
         \o T_PartSentinel \o <<NL>> \o T_ZeroPartRow \o <<NL>> \o T_PartRow \o <<NL>>}

\* the rows written one to a line, a row of no cell as a blank line
RECURSIVE WriteLines(_)
WriteLines(g) ==
    IF g = <<>> THEN <<>>
    ELSE <<NL>> \o (IF g[1] = <<>> THEN <<>> ELSE WriteRow(g[1])) \o WriteLines(Tail(g))

InitSpecies ==
    /\ pc = "ready"
    /\ call = "parseHistoricalResultsByCountCsv"
    /\ written \in UNION {LinesOfLen(SpeciesRows, n) : n \in 0..MaxSpeciesRows}
    /\ \E lead \in SpeciesLeads : text = lead \o T_SpeciesSentinel \o WriteLines(written)
    /\ cell = <<>>
    /\ maxRows = HistMaxRows
    /\ maxCols = HistMaxCols
    /\ out = Null
    /\ AppIdle

NextSpecies == CallParseHistorical

SpecSpecies == InitSpecies /\ [][NextSpecies]_vars

\* c without the white space at its two ends
Strip(c) ==
    LET solid == {j \in 1..Len(c) : ~IsSpace(c[j])}
    IN  IF solid = {} THEN <<>>
        ELSE SubSeq(c, Min(solid), CHOOSE a \in solid : \A b \in solid : a >= b)

\* the n-th cell of the written row r, empty when the row is shorter
CellOf(r, n) == IF n <= Len(r) THEN r[n] ELSE <<>>

\* the integer the cell c begins with, 0 when it begins with none
LeadingInt(c) ==
    LET t      == Strip(c)
        signed == t # <<>> /\ t[1] \in {"-", "+"}
        d      == IF signed THEN Tail(t) ELSE t
        stops  == {j \in 1..Len(d) : d[j] \notin Digits}
        n      == IF stops = {} THEN Len(d) ELSE Min(stops) - 1
        v      == Numeral(SubSeq(d, 1, n), 0)
    IN  IF signed /\ t[1] = "-" THEN 0 - v ELSE v

\* What the written row r says: its species cell, and the name in it (the
\* first line of the cell, without the white space around it); whether its
\* header cell is non-empty and carries a year and an index, and which; the
\* integer its third cell begins with.
RowRead(r) ==
    LET hdr == CellOf(r, 2)
        rds == HeaderReadings(LineOne(hdr))
        rd  == CHOOSE x \in rds : TRUE
    IN  [cell  |-> CellOf(r, 1),
         name  |-> Strip(LineOne(Strip(CellOf(r, 1)))),
         hdr   |-> hdr # <<>> /\ rds # {},
         year  |-> IF rds = {} THEN 0 ELSE Numeral(SubSeq(hdr, rd[1], rd[1] + 3), 0),
         index |-> IF rds = {} THEN 0 ELSE Numeral(SubSeq(hdr, rd[2] + 1, rd[3] - 1), 0),
         count |-> LeadingInt(CellOf(r, 3))]

WrittenRead == AsTuple([k \in 1..Len(written) |-> RowRead(written[k])])

IsNonEmpty(c) == c # <<>>
IsNonBlank(c) == Strip(c) # <<>>

\* the rows of w with a species cell that Full accepts, a non-empty header cell,
\* and a header that carries a year and an index
RowsWith(w, Full(_)) == {k \in 1..Len(w) : Full(w[k].cell) /\ w[k].hdr}

YearSet == {out.years[i] : i \in 1..Len(out.years)}

\* the result is the one of a section whose accepted rows are the rows acc of
\* w: the indexes of meta and the species of speciesTable are theirs, and the
\* count under a year is that of the last of them for the species and year
AcceptedAre(w, acc) ==
    /\ {out.meta[k].CountIndex : k \in 1..Len(out.meta)} = {Some(w[k].index) : k \in acc}
    /\ {out.speciesTable[t].Species : t \in 1..Len(out.speciesTable)}
          = {w[k].name : k \in acc}
    /\ \A k \in acc : \A t \in 1..Len(out.speciesTable) :
          (out.speciesTable[t].Species = w[k].name /\ w[k].year \in YearSet)
          => LET same == {j \in acc : w[j].name = w[k].name /\ w[j].year = w[k].year}
                 last == CHOOSE a \in same : \A b \in same : a >= b
             IN  /\ w[k].year \in DOMAIN out.speciesTable[t].counts
                 /\ out.speciesTable[t].counts[w[k].year] = w[last].count

\* C7 as stated: a species row is accepted exactly when its species cell is
\* non-empty, its header cell is non-empty and the header parses; other rows are
\* skipped; the count is the integer read from the third cell, 0 without one.
C7_AcceptedWhenCellsNonEmpty ==
    pc = "done" => LET w == WrittenRead IN AcceptedAre(w, RowsWith(w, IsNonEmpty))

\* C7 (amended): a species row is accepted exactly when its species cell is
\* non-empty once the white space around it is removed, its header cell is
\* non-empty and the header parses; other rows are skipped without ending the
\* section; the count is the integer read from the third cell, 0 without one.
C7_AcceptedWhenSpeciesNonBlank ==
    pc = "done" => LET w == WrittenRead IN AcceptedAre(w, RowsWith(w, IsNonBlank))

\* a count-week row, a row with a blank species cell and a row of multi-line
\* cells have been extracted: the second is skipped, the third still accepted
C7_Witness ==
    /\ pc = "done"
    /\ written = <<R_B2000, R_Blank, R_Lines>>
    /\ RowsWith(WrittenRead, IsNonBlank) = {1, 3}
    /\ Len(out.speciesTable) = 2
    /\ out.speciesTable[1].counts[2000] = 0
    /\ out.speciesTable[2].counts[2001] = 12

\* C8: years is strictly ascending, its elements lie in 1900..2099 and are
\* exactly the Year values of meta; none comes from outside the species rows.
C8_YearsSortedSetOfMeta ==
    pc = "done" =>
        /\ \A i \in 1..Len(out.years) : \A j \in 1..Len(out.years) :
              i < j => out.years[i] < out.years[j]
        /\ \A i \in 1..Len(out.years) : out.years[i] \in 1900..2099
        /\ YearSet = {Val(out.meta[k].Year) : k \in 1..Len(out.meta)}
        /\ LET w == WrittenRead
           IN  YearSet \subseteq {w[k].year : k \in RowsWith(w, IsNonBlank)}

\* after a weather and a participation section, rows of the years 2000, 1999
\* and 1999 again (under another index) have been extracted
C8_Witness ==
    /\ pc = "done"
    /\ written = <<R_B2000, R_A1999, R_A1999n>>
    /\ Len(out.participantsEffort) = 1
    /\ Len(out.meta) = 3
    /\ out.years = <<1999, 2000>>

\* C9: the year of every species row with a parsed header is in years.
C9_EveryParsedYearListed ==
    pc = "done" =>
        LET w == WrittenRead
        IN  \A k \in RowsWith(w, IsNonBlank) : w[k].year \in YearSet

\* the accepted rows acc of w that name a species for the first time
FirstNamed(w, acc) == {k \in acc : \A j \in acc : j < k => w[j].name # w[k].name}

\* C10: speciesTable has one record per distinct species name, in the order
\* the names first appear; a record has a key for a year only if an accepted
\* row of the species carried that year; every key is an element of years.
C10_OneRecordPerSpecies ==
    pc = "done" =>
        LET w     == WrittenRead
            acc   == RowsWith(w, IsNonBlank)
            first == FirstNamed(w, acc)
        IN  /\ Len(out.speciesTable) = Cardinality(first)
            /\ \A t \in 1..Len(out.speciesTable) :
                  LET k == CHOOSE a \in first : Cardinality({b \in first : b < a}) = t - 1
                  IN  /\ out.speciesTable[t].Species = w[k].name
                      /\ \A y \in DOMAIN out.speciesTable[t].counts :
                            /\ y \in YearSet
                            /\ \E j \in acc : w[j].name = w[k].name /\ w[j].year = y

\* species B, A and B again have been extracted: two records, B first, and A
\* has no key for the year 2000 although 2000 is one of years
C10_Witness ==
    /\ pc = "done"
    /\ written = <<R_B2000, R_A1999, R_B2000>>
    /\ out.years = <<1999, 2000>>
    /\ Len(out.speciesTable) = 2
    /\ out.speciesTable[1].Species = <<"B">>
    /\ DOMAIN out.speciesTable[2].counts = {1999}


\* the label "Count Date:" stands at p of the cell c
LabelAt(c, p) ==
    p + Len(S_CountDate) - 1 <= Len(c) /\ SubSeq(c, p, p + Len(S_CountDate) - 1) = S_CountDate

\* a date stands at a of the cell c, after the label at p and white space
\* only, n1 and n2 the lengths of its first two numbers
DateAt(c, p, a, n1, n2) ==
    /\ a + n1 + n2 + 5 <= Len(c)
    /\ \A x \in (p + Len(S_CountDate))..(a - 1) : IsSpace(c[x])
    /\ \A x \in a..(a + n1 - 1) : c[x] \in Digits
    /\ c[a + n1] = "/"
    /\ \A x \in (a + n1 + 1)..(a + n1 + n2) : c[x] \in Digits
    /\ c[a + n1 + n2 + 1] = "/"
    /\ \A x \in (a + n1 + n2 + 2)..(a + n1 + n2 + 5) : c[x] \in Digits

\* the dates the cell c can be read to carry: <<p, a, e>>, the label at p and
\* the date from a to e
DateReadings(c) ==
    UNION {UNION {{<<p, a, a + n[1] + n[2] + 5>> :
                      n \in {m \in (1..2) \X (1..2) : DateAt(c, p, a, m[1], m[2])}}
                     : a \in (p + Len(S_CountDate))..Len(c)}
              : p \in {q \in 1..Len(c) : LabelAt(c, q)}}

\* the date of the first "Count Date:" of c that a date follows, if any
DateRead(c) ==
    LET rds == DateReadings(c)
        rd  == CHOOSE r \in rds : \A q \in rds : r[1] <= q[1]
    IN  IF rds = {} THEN Null ELSE Some(SubSeq(c, rd[2], rd[3]))

\* the accepted rows acc of w that carry an index for the first time
FirstIndexed(w, acc) == {k \in acc : \A j \in acc : j < k => w[j].index # w[k].index}

\* C11: meta holds one record per CountIndex, in the order the indexes first
\* appear among the accepted rows of the species section, and the record of an
\* index holds the Year and the CountDate of the first accepted header that
\* carries it; later headers with that index change nothing and add nothing.
C11_MetaIsFirstPerIndex ==
    pc = "done" =>
        LET w     == WrittenRead
            first == FirstIndexed(w, RowsWith(w, IsNonBlank))
        IN  /\ Len(out.meta) = Cardinality(first)
            /\ \A t \in 1..Len(out.meta) :
                  LET k == CHOOSE a \in first : Cardinality({b \in first : b < a}) = t - 1
                  IN  out.meta[t] = [CountIndex |-> Some(w[k].index),
                                     Year       |-> Some(w[k].year),
                                     CountDate  |-> DateRead(CellOf(written[k], 2))]

\* index 5 came with 1999 and a date, then with 2001 and another date, and
\* index 1 after them: meta keeps the first header of index 5
C11_Witness ==
    /\ pc = "done"
    /\ written = <<R_A1999n, R_Lines, R_A1999>>
    /\ Len(out.meta) = 2
    /\ out.meta[1] = [CountIndex |-> Some(5), Year |-> Some(1999),
                      CountDate |-> Some(<<"1", "2", "/", "2", "7", "/", "1", "9", "8", "7">>)]
    /\ out.meta[2] = [CountIndex |-> Some(1), Year |-> Some(1999), CountDate |-> Null]


-----------------------------------------------------------------------------
(* The extraction called on a weather or a participation section: its      *)
(* sentinel row, then a few rows, data rows and others                     *)

MaxSectionRows == 3

W_Sentinel == <<<<"C", "o", "u", "n", "t", "Y", "e", "a", "r", "3">>, <<"L", "o", "w", "T", "e", "m", "p">>>>
P_Sentinel == <<<<"C", "o", "u", "n", "t", "Y", "e", "a", "r", "5">>>>
W_Example  == <<<<"3">>, <<"2", "8", ".", "4", "F">>, <<"4", "1">>, <<"C", "l", "o", "u", "d", "y">>, <<"C", "l", "e", "a", "r">>, <<"N", "o", "n", "e">>, <<"L", "i", "g", "h", "t">>, <<"N", "o", "n", "e">>, <<"N", "o", "n", "e">>>>
W_Short    == <<<<"-", "4">>, <<"a", "-", "3", "b">>, <<"n", "/", "a">>, <<"F", "o", "g">>>>
W_Zero     == <<<<"0">>, <<"1">>, <<"2">>>>
W_Frac     == <<<<"2", ".", "7">>, <<"-", ".", "5">>, <<"1", ".">>>>
W_Spaced   == <<<<SP, "5", SP>>, <<SP, "7", SP>>, <<"-", "-", "8", ".", "2", "5", "x", "9">>>>
W_Exp      == <<<<"1", "e", "3">>, <<"5">>, <<"6">>>>
P_Row      == <<<<"1">>, <<"1", "2", "/", "2", "7", "/", "1", "9", "9", "8">>, <<"1", "0">>, <<"6", ".", "5">>, <<"4", "0">>>>

SectionHeads == {W_Sentinel, P_Sentinel}

SectionRows == {W_Example, W_Short, W_Zero, W_Frac, W_Spaced, W_Exp, P_Row, W_Sentinel, <<>>}

InitSections ==
    /\ pc = "ready"
    /\ call = "parseHistoricalResultsByCountCsv"
    /\ \E head \in SectionHeads :
          \E rest \in UNION {LinesOfLen(SectionRows, n) : n \in 0..MaxSectionRows} :
              written = <<head>> \o rest
    /\ text = Tail(WriteLines(written))
    /\ cell = <<>>
    /\ maxRows = HistMaxRows
    /\ maxCols = HistMaxCols
    /\ out = Null
    /\ AppIdle

NextSections == CallParseHistorical

SpecSections == InitSections /\ [][NextSections]_vars


\* t is a decimal number and nothing else: an optional "-", digits, and
\* optionally a "." with digits after it
IsSignedDecimal(t) ==
    LET u    == IF t # <<>> /\ t[1] = "-" THEN Tail(t) ELSE t
        dots == {k \in 1..Len(u) : u[k] = "."}
    IN  /\ u # <<>>
        /\ \A k \in 1..Len(u) : u[k] \in Digits \cup {"."}
        /\ dots = {} \/ \E k \in 2..(Len(u) - 1) : dots = {k}

\* the number the decimal t writes, as a mantissa and a count of decimals
DecimalValue(t) ==
    LET neg   == t[1] = "-"
        u     == IF neg THEN Tail(t) ELSE t
        dots  == {k \in 1..Len(u) : u[k] = "."}
        whole == IF dots = {} THEN u ELSE SubSeq(u, 1, Min(dots) - 1)
        frac  == IF dots = {} THEN <<>> ELSE SubSeq(u, Min(dots) + 1, Len(u))
        solid == {k \in 1..Len(frac) : frac[k] # "0"}
        kept  == IF solid = {} THEN <<>>
                 ELSE SubSeq(frac, 1, CHOOSE a \in solid : \A b \in solid : a >= b)
        v     == Numeral(whole \o kept, 0)
    IN  [m |-> IF neg THEN 0 - v ELSE v, e |-> Len(kept)]

\* the first decimal number embedded in the cell c: of the decimals that are
\* part of c, the one that starts first, and the longest of those, if any
TempRead(c) ==
    LET hits  == {h \in (1..Len(c)) \X (1..Len(c)) :
                     h[1] <= h[2] /\ IsSignedDecimal(SubSeq(c, h[1], h[2]))}
        first == CHOOSE h \in hits :
                     \A g \in hits : h[1] < g[1] \/ (h[1] = g[1] /\ h[2] >= g[2])
    IN  IF hits = {} THEN Null ELSE Some(DecimalValue(SubSeq(c, first[1], first[2])))

\* the rows of the written text: its lines that are not blank
Lines == KeptRows(written)

\* The data rows of the section whose sentinel row is head, as the lines l
\* show them: the lines after the first head whose first cell looks numeric
\* to Looks, up to the first that does not, less those whose index is 0.
DataRead(l, head, Looks(_)) ==
    LET marks == {k \in 1..Len(l) : l[k] = head}
        from  == Min(marks) + 1
        stops == {k \in from..Len(l) : ~Looks(l[k][1])}
        to    == IF stops = {} THEN Len(l) ELSE Min(stops) - 1
        Keeps(r) == LeadingInt(r[1]) # 0
    IN  IF marks = {} THEN <<>> ELSE SelectSeq(SubSeq(l, from, to), Keeps)

\* the cell looks numeric once the white space around it is removed
LooksNumeric(c) == IsSignedDecimal(Strip(c))

\* the weather record of the data row r
WeatherRead(r) ==
    [CountIndex |-> Some(LeadingInt(r[1])),
     LowTempF   |-> TempRead(CellOf(r, 2)),
     HighTempF  |-> TempRead(CellOf(r, 3)),
     AMClouds   |-> CellOf(r, 4), PMClouds |-> CellOf(r, 5),
     AMRain     |-> CellOf(r, 6), PMRain   |-> CellOf(r, 7),
     AMSnow     |-> CellOf(r, 8), PMSnow   |-> CellOf(r, 9)]

\* C12: a data row after the weather sentinel yields a record whose
\* CountIndex is the integer value of cell 0, whose LowTempF and HighTempF are
\* the first signed decimal number embedded in cells 1 and 2, null when the
\* cell has none, and whose six sky and precipitation fields are cells 3..8 as
\* text, empty when absent; the example row yields 3, 28.4 and 41.
C12_WeatherRecordOfRow ==
    pc = "done" =>
        LET data == DataRead(Lines, W_Sentinel, LooksNumeric)
        IN  /\ Len(out.weatherRaw) = Len(data)
            /\ \A t \in 1..Len(data) :
                  /\ out.weatherRaw[t] = WeatherRead(data[t])
                  /\ data[t] = W_Example =>
                        /\ out.weatherRaw[t].CountIndex = Some(3)
                        /\ out.weatherRaw[t].LowTempF = Some([m |-> 284, e |-> 1])
                        /\ out.weatherRaw[t].HighTempF = Some([m |-> 41, e |-> 0])

\* the example row, a row with a number inside other text and no number at
\* all, and a row with two signs have been extracted after the sentinel
C12_Witness ==
    /\ pc = "done"
    /\ written = <<W_Sentinel, W_Example, W_Short, W_Spaced>>
    /\ Len(out.weatherRaw) = 3
    /\ out.weatherRaw[1].LowTempF = Some([m |-> 284, e |-> 1])
    /\ out.weatherRaw[1].PMRain = <<"L", "i", "g", "h", "t">>
    /\ out.weatherRaw[2].LowTempF = Some([m |-> -3, e |-> 0])
    /\ out.weatherRaw[2].HighTempF = Null
    /\ out.weatherRaw[2].PMClouds = <<>>
    /\ out.weatherRaw[3].HighTempF = Some([m |-> -825, e |-> 2])


-----------------------------------------------------------------------------
(* main.js: the full range of years and the years missing from it          *)

\* years.filter((y) => typeof y === 'number' && Number.isFinite(y)): an
\* element of a list of years is Some(y), or Null when it is no finite number
FiniteYears(years) ==
    LET IsNumber(y) == y # Null
        kept == SelectSeq(years, IsNumber)
    IN  [k \in 1..Len(kept) |-> Val(kept[k])]

\* (mutant) the years as they were given, the gaps between them left out
continuousYears_asGiven(years) == FiniteYears(years)

\* for (let y = minY; y <= maxY; y++) out.push(y), ys the finite years
YearsBetween(ys) ==
    LET S    == {ys[k] : k \in 1..Len(ys)}
        minY == CHOOSE a \in S : \A b \in S : a <= b
        maxY == CHOOSE a \in S : \A b \in S : a >= b
    IN  IF ys = <<>> THEN <<>> ELSE [k \in 1..(maxY - minY + 1) |-> minY + k - 1]

continuousYears(years) == YearsBetween(FiniteYears(years))

\* yearsFull.filter((y) => !present.has(y)), present the finite years
YearsNotIn(ys, yearsFull) ==
    LET Absent(y) == \A k \in 1..Len(ys) : ys[k] # y
    IN  SelectSeq(yearsFull, Absent)

missingYearsFromRanges(present, yearsFull) == YearsNotIn(FiniteYears(present), yearsFull)

\* the list of numbers ys as a list of years, every element a finite number
AsYears(ys) == [k \in 1..Len(ys) |-> Some(ys[k])]

\* years, yearsFull and missingYears as parseUploadedFile derives them
YearRanges(years) ==
    [thrown       |-> "none",
     years        |-> years,
     yearsFull    |-> continuousYears(years),
     missingYears |-> missingYearsFromRanges(years, continuousYears(years))]

MaxYears == 3

YearChoices == {Some(1999), Some(2000), Some(2001), Some(2002), Null}

YearLists == UNION {LinesOfLen(YearChoices, n) : n \in 0..MaxYears}

T_Spanning == T_SpeciesSentinel \o <<NL>> \o <<"A", ",", "1", "9", "9", "9", "[", "1", "]", ",", "5">> \o <<NL>> \o <<"A", ",", "2", "0", "0", "0", "[", "2", "]", ",", "7">> \o <<NL>> \o <<"B", ",", "2", "0", "0", "2", "[", "3", "]", ",", "1">>

YearTexts == {<<>>, T_SpeciesSentinel, T_Spanning, T_SpeciesSentinel \o <<NL>> \o T_SpeciesRow}

InitYears ==
    /\ pc = "ready"
    /\ call \in {"continuousYears", "parseUploadedFile"}
    /\ IF call = "continuousYears"
       THEN yearsPresent \in YearLists /\ text = <<>>
       ELSE yearsPresent = <<>> /\ text \in YearTexts
    /\ maxRows = HistMaxRows
    /\ maxCols = HistMaxCols
    /\ cell = <<>>
    /\ written = <<>>
    /\ out = Null
    /\ calls = <<>> /\ file = {} /\ state = NoState /\ store = NoStore /\ saves = <<>>

\* continuousYears and missingYearsFromRanges called on a list of years
CallYearRanges ==
    /\ pc = "ready"
    /\ call = "continuousYears"
    /\ out' = YearRanges(yearsPresent)
    /\ pc' = "done"
    /\ UNCHANGED <<call, text, maxRows, maxCols, cell, written, yearsPresent, calls, file, state, store, saves>>

\* parseUploadedFile from the call of the core to missingYears: the list of
\* years is the one the core returns
ParseUploadedYears ==
    /\ pc = "ready"
    /\ call = "parseUploadedFile"
    /\ yearsPresent' = AsYears(parseHistoricalResultsByCountCsv(text).years)
    /\ out' = YearRanges(yearsPresent')
    /\ pc' = "done"
    /\ UNCHANGED <<call, text, maxRows, maxCols, cell, written, calls, file, state, store, saves>>

NextYears == CallYearRanges \/ ParseUploadedYears

SpecYears == InitYears /\ [][NextYears]_vars

\* the years of the list l that are numbers, as a set
Observed(l) == {Val(l[k]) : k \in {j \in 1..Len(l) : l[j] # Null}}

\* the elements of the list l, as a set
Elements(l) == {l[k] : k \in 1..Len(l)}

\* the list l goes up by one at every step
Consecutive(l) == \A k \in 1..(Len(l) - 1) : l[k + 1] = l[k] + 1

\* the list l goes up
Ascending(l) == \A k \in 1..(Len(l) - 1) : l[k + 1] > l[k]

\* C13: continuousYears returns every integer from the least to the greatest
\* observed year, and missingYearsFromRanges exactly the years of that range
\* that were not observed: observed and missing are disjoint and together are
\* the full range.  For the years 1999, 2000 and 2002 of the core, years stays
\* as it is and 2001 is the only missing year.
C13_MissingCompletesObserved ==
    pc = "done" =>
        LET obs == Observed(yearsPresent)
        IN  /\ Consecutive(out.yearsFull) /\ Ascending(out.missingYears)
            /\ Elements(out.yearsFull) = {y \in 1999..2002 :
                                             /\ \E a \in obs : a <= y
                                             /\ \E b \in obs : y <= b}
            /\ Elements(out.missingYears) = Elements(out.yearsFull) \ obs
            /\ Elements(out.missingYears) \cap obs = {}
            /\ Elements(out.missingYears) \cup obs = Elements(out.yearsFull)
            /\ out.years = yearsPresent
            /\ text = T_Spanning =>
                  /\ out.years = <<Some(1999), Some(2000), Some(2002)>>
                  /\ out.missingYears = <<2001>>

\* the core found the years 1999, 2000 and 2002 in the species rows, and 2001
\* is reported missing
C13_Witness ==
    /\ pc = "done"
    /\ text = T_Spanning
    /\ yearsPresent = <<Some(1999), Some(2000), Some(2002)>>
    /\ out.yearsFull = <<1999, 2000, 2001, 2002>>
    /\ out.missingYears = <<2001>>


-----------------------------------------------------------------------------
(* The extraction called several times in a row, on texts of every kind    *)

MaxCalls == 3

T_Sections ==
    T_WeatherSentinel \o <<NL>> \o T_WeatherRow \o <<NL>>
        \o T_PartSentinel \o <<NL>> \o T_PartRow \o <<NL>>
        \o T_SpeciesSentinel \o <<NL>> \o T_SpeciesRow

CallTexts ==
    {<<>>, T_Sections, T_Spanning, T_CircleMarker \o <<NL>> \o T_CircleRow,
     T_WeatherSentinel \o <<NL>> \o T_WeatherRow, Commas(HistMaxCols + 1)}

InitCalls ==
    /\ pc = "ready"
    /\ call = "parseHistoricalResultsByCountCsv"
    /\ text = <<>>
    /\ maxRows = HistMaxRows
    /\ maxCols = HistMaxCols
    /\ cell = <<>>
    /\ written = <<>>
    /\ out = Null
    /\ AppIdle

\* one more call of the extraction, on any of the texts; the module keeps
\* nothing from one call to the next, and calls records what was returned
CallAgain ==
    /\ pc = "ready"
    /\ Len(calls) < MaxCalls
    /\ \E t \in CallTexts :
          /\ text' = t
          /\ out' = parseHistoricalResultsByCountCsv(t)
          /\ calls' = Append(calls, [text |-> t, out |-> out'])
    /\ UNCHANGED <<pc, call, maxRows, maxCols, cell, written, yearsPresent, file, state, store, saves>>

NextCalls == CallAgain

SpecCalls == InitCalls /\ [][NextCalls]_vars

-----------------------------------------------------------------------------
(* main.js: handleFile and parseUploadedFile                               *)

MAX_CSV_BYTES == 10 * 1024 * 1024

\* name.endsWith('.csv'), name the file name in lower case
EndsWithCsv(name) ==
    Len(name) >= 4 /\ SubSeq(toLowerCase(name), Len(name) - 3, Len(name)) = <<".", "c", "s", "v">>

\* typeof file.size === 'number' && file.size > MAX_CSV_BYTES
SizeTooBig(f) == f.size # Null /\ Val(f.size) > MAX_CSV_BYTES

\* text.length > MAX_CSV_BYTES
TextTooBig(f) == f.length > MAX_CSV_BYTES

\* \w of a regular expression
IsWordChar(c) ==
    \/ c \in Digits
    \/ c = "_"
    \/ \E n \in 1..26 : UpperLetters[n] = c \/ LowerLetters[n] = c

\* .replace(/\r/g, '')
DropCr(s) == SelectSeq(s, LAMBDA c : c # CR)

\* cleanText(v), v a string
cleanText(v) == Trim(CollapseSpaces(DropCr(v), 1, Len(DropCr(v))))

\* /\b(19\d{2}|20\d{2})\b/ matches s at the 1-based position i
YearTokenAt(s, i) ==
    /\ i + 3 <= Len(s)
    /\ \/ s[i] = "1" /\ s[i + 1] = "9"
       \/ s[i] = "2" /\ s[i + 1] = "0"
    /\ s[i + 2] \in Digits /\ s[i + 3] \in Digits
    /\ i = 1 \/ ~IsWordChar(s[i - 1])
    /\ i + 4 > Len(s) \/ ~IsWordChar(s[i + 4])

\* s.match(...) and parseInt(m[1], 10) on the cleaned text s: the leftmost match
YearIn(s) ==
    LET hits == {i \in 1..Len(s) : YearTokenAt(s, i)}
    IN  IF s = <<>> \/ hits = {} THEN Null
        ELSE parseInt(SubSeq(s, Min(hits), Min(hits) + 3))

yearFromCountDateString(countDate) == YearIn(cleanText(countDate))

\* new Map(rows.map((r) => [r.CountIndex, ...])).get(idx): the position of the
\* record the map keeps for idx, the last one with that index, or 0
LastByIndex(rows, idx) ==
    LET hits == {k \in 1..Len(rows) : rows[k].CountIndex = idx}
    IN  IF hits = {} THEN 0 ELSE CHOOSE a \in hits : \A b \in hits : a >= b

\* (mutant) the year in the record's own date is preferred to the meta year
ResolveYear_dateFirst(r, meta) ==
    LET k == LastByIndex(meta, r.CountIndex)
        yearFromDate == IF r.CountDate = Null \/ Val(r.CountDate) = <<>> THEN Null
                        ELSE yearFromCountDateString(Val(r.CountDate))
    IN  IF yearFromDate # Null THEN yearFromDate
        ELSE IF k # 0 /\ meta[k].Year # Null THEN meta[k].Year
        ELSE r.Year

\* const Year of the map over pe, r a participation/effort record
ResolveYear(r, meta) ==
    LET k == LastByIndex(meta, r.CountIndex)
        yearFromDate == IF r.CountDate = Null \/ Val(r.CountDate) = <<>> THEN Null
                        ELSE yearFromCountDateString(Val(r.CountDate))
    IN  IF k # 0 /\ meta[k].Year # Null THEN meta[k].Year
        ELSE IF yearFromDate # Null THEN yearFromDate
        ELSE r.Year

\* pe = (pe || []).map((r) => ({ ...r, Year }))
ResolveYears(pe, meta) ==
    AsTuple([k \in 1..Len(pe) |-> [pe[k] EXCEPT !.Year = ResolveYear(pe[k], meta)]])

\* the value o of the field f is one that || passes over: null, the year 0
\* and the date ''
FalsyValue(f, o) == o = Null \/ (IF f = "Year" THEN Val(o) = 0 ELSE Val(o) = <<>>)

\* (pe && pe[f]) || (meta && meta[f]) || null, p and m the positions of the
\* two records found (0: not found)
YearInfo(f, pe, p, meta, m) ==
    IF p # 0 /\ ~FalsyValue(f, pe[p][f]) THEN pe[p][f]
    ELSE IF m # 0 /\ ~FalsyValue(f, meta[m][f]) THEN meta[m][f]
    ELSE Null

\* (mutant) the meta record is asked before the participation/effort record
JoinedRecord_metaFirst(w, pe, meta) ==
    LET p == LastByIndex(pe, w.CountIndex)
        m == LastByIndex(meta, w.CountIndex)
    IN  [f \in {"Year", "CountDate"} \cup DOMAIN w |->
            IF f \in DOMAIN w THEN w[f] ELSE YearInfo(f, meta, m, pe, p)]

\* { Year, CountDate, ...w }
JoinedRecord(w, pe, meta) ==
    LET p == LastByIndex(pe, w.CountIndex)
        m == LastByIndex(meta, w.CountIndex)
    IN  [f \in {"Year", "CountDate"} \cup DOMAIN w |->
            IF f \in DOMAIN w THEN w[f] ELSE YearInfo(f, pe, p, meta, m)]

joinWeatherWithYearInfo(weatherRows, participantsEffortRows, metaRows) ==
    AsTuple([k \in 1..Len(weatherRows) |->
        JoinedRecord(weatherRows[k], participantsEffortRows, metaRows)])

\* const participation and const effort
ParticipationOf(pe) ==
    AsTuple([k \in 1..Len(pe) |->
        [Year |-> pe[k].Year, CountDate |-> pe[k].CountDate,
         CountIndex |-> pe[k].CountIndex, NumParticipants |-> pe[k].NumParticipants]])

EffortOf(pe) ==
    AsTuple([k \in 1..Len(pe) |->
        [Year |-> pe[k].Year, CountDate |-> pe[k].CountDate,
         CountIndex |-> pe[k].CountIndex, NumHours |-> pe[k].NumHours]])

\* the return of parseUploadedFile, pe the records with their years resolved
UploadedWith(parsed, pe) ==
    [years        |-> Some(parsed.years),
     yearsFull    |-> Some(continuousYears(AsYears(parsed.years))),
     missingYears |-> Some(missingYearsFromRanges(AsYears(parsed.years),
                                                  continuousYears(AsYears(parsed.years)))),
     meta         |-> Some(parsed.meta),
     species      |-> Some(parsed.speciesTable),
     weather      |-> Some(joinWeatherWithYearInfo(parsed.weatherRaw, pe, parsed.meta)),
     effort       |-> Some(EffortOf(pe)),
     participation |-> Some(ParticipationOf(pe)),
     countInfo    |-> Some(parsed.countInfo)]

\* what parseUploadedFile returns once the core has returned parsed
Uploaded(parsed) == UploadedWith(parsed, ResolveYears(parsed.participantsEffort, parsed.meta))

\* state = { ...parsed, filename: file.name, selectedSpecies: null }
LoadedState(up, f) ==
    [species |-> up.species, weather |-> up.weather, effort |-> up.effort,
     participation |-> up.participation, meta |-> up.meta, years |-> up.years,
     yearsFull |-> up.yearsFull, missingYears |-> up.missingYears,
     countInfo |-> up.countInfo, filename |-> Some(f.name), selectedSpecies |-> Null]

\* what the summary and the panel show
Shown(what) == [thrown |-> "none", shown |-> what]
ShownError(msg) == [thrown |-> msg, shown |-> "error"]

(* The files handed over.  A file is its name, its size in bytes (Null    *)
(* when size is not a number), the length of its text and the text; the   *)
(* text of a file of more than MAX_CSV_BYTES characters is not written    *)
(* out, only its length is given.                                          *)

MaxLoads == 3

File(name, size, length, t) == [name |-> name, size |-> size, length |-> length, text |-> t]

F_Sections == File(<<"a", ".", "c", "s", "v">>, Some(Len(T_Sections)), Len(T_Sections), T_Sections)
F_Spanning == File(<<"B", ".", "C", "S", "V">>, Some(Len(T_Spanning)), Len(T_Spanning), T_Spanning)
F_Xls      == File(<<"a", ".", "x", "l", "s">>, Some(Len(T_Sections)), Len(T_Sections), T_Sections)
F_Big      == File(<<"b", "i", "g", ".", "c", "s", "v">>, Some(MAX_CSV_BYTES + 1), MAX_CSV_BYTES + 1, T_Sections)
F_Edge     == File(<<"e", "d", "g", "e", ".", "c", "s", "v">>, Some(MAX_CSV_BYTES), MAX_CSV_BYTES, T_SpeciesSentinel)
F_Unsized  == File(<<"b", "l", "o", "b", ".", "c", "s", "v">>, Null, MAX_CSV_BYTES + 1, T_Sections)
F_Wide     == File(<<"w", "i", "d", "e", ".", "c", "s", "v">>, Some(HistMaxCols + 1), HistMaxCols + 1, Commas(HistMaxCols + 1))

Files == {F_Sections, F_Spanning, F_Xls, F_Big, F_Edge, F_Unsized, F_Wide}

InitApp ==
    /\ pc = "idle"
    /\ call = "handleFile"
    /\ text = <<>>
    /\ maxRows = HistMaxRows
    /\ maxCols = HistMaxCols
    /\ cell = <<>>
    /\ written = <<>>
    /\ out = Shown("empty")
    /\ AppIdle

\* (mutant) the count on display is dropped as soon as a file comes in
HandleFileStart_clearsState ==
    /\ pc = "idle"
    /\ Len(calls) < MaxLoads
    /\ \E f \in Files :
          /\ file' = Some(f)
          /\ IF ~EndsWithCsv(f.name) THEN out' = ShownError("csv only") /\ pc' = "idle"
             ELSE IF SizeTooBig(f) THEN out' = ShownError("too big") /\ pc' = "idle"
             ELSE out' = Shown("processing") /\ pc' = "reading"
    /\ state' = NoState
    /\ UNCHANGED <<call, text, maxRows, maxCols, cell, written, yearsPresent, calls, store, saves>>

\* handleFile(file) up to the first await of parseUploadedFile: the two
\* "Parsing" messages, the test of the name and the test of file.size; a throw
\* goes to the catch of handleFile, which shows the error
HandleFileStart ==
    /\ pc = "idle"
    /\ Len(calls) < MaxLoads
    /\ \E f \in Files :
          /\ file' = Some(f)
          /\ IF ~EndsWithCsv(f.name) THEN out' = ShownError("csv only") /\ pc' = "idle"
             ELSE IF SizeTooBig(f) THEN out' = ShownError("too big") /\ pc' = "idle"
             ELSE out' = Shown("processing") /\ pc' = "reading"
    /\ UNCHANGED <<call, text, maxRows, maxCols, cell, written, yearsPresent, calls, state, store, saves>>

\* from the text of the file to the await of the import: the test of text.length
HandleFileRead ==
    /\ pc = "reading"
    /\ IF TextTooBig(Val(file))
       THEN out' = ShownError("too big") /\ pc' = "idle" /\ text' = text
       ELSE out' = out /\ pc' = "importing" /\ text' = Val(file).text
    /\ UNCHANGED <<call, maxRows, maxCols, cell, written, yearsPresent, calls, file, state, store, saves>>

\* the rest of parseUploadedFile and of handleFile: the core is called; when
\* it throws the catch shows the error, otherwise state is replaced and the
\* count is rendered.  The save that handleFile then starts runs in the
\* background and changes the store only: its steps are the Save actions of
\* SpecSave.
HandleFileParse ==
    /\ pc = "importing"
    /\ calls' = Append(calls, [text |-> text, out |-> parseHistoricalResultsByCountCsv(text)])
    /\ IF calls'[Len(calls')].out.thrown # "none"
       THEN out' = ShownError(calls'[Len(calls')].out.thrown) /\ state' = state
       ELSE /\ out' = Shown("rendered")
            /\ state' = LoadedState(Uploaded(calls'[Len(calls')].out), Val(file))
    /\ pc' = "idle"
    /\ UNCHANGED <<call, text, maxRows, maxCols, cell, written, yearsPresent, file, store, saves>>

NextApp == HandleFileStart \/ HandleFileRead \/ HandleFileParse

SpecApp == InitApp /\ [][NextApp]_vars


\* the file in hand passes the three tests made before the core is called
PassesChecks(f) == EndsWithCsv(f.name) /\ ~SizeTooBig(f) /\ ~TextTooBig(f)

\* C15: ingestion fails atomically.  A step that ends handleFile in an error
\* (not a .csv, more than 10 MB, or a throw of the parser on a cap) leaves
\* state as it was; state changes only in the step in which parseUploadedFile
\* has succeeded, and then to the count of the file in hand; and the core is
\* called only on a file that has passed the tests of name and size.
C15_FailedLoadLeavesState ==
    [][/\ (pc' = "idle" /\ out'.thrown # "none") => state' = state
       /\ state' # state =>
             /\ pc = "importing" /\ pc' = "idle"
             /\ out' = Shown("rendered")
             /\ PassesChecks(Val(file))
             /\ calls'[Len(calls')].out.thrown = "none"
             /\ state'.filename = Some(Val(file).name)
             /\ state'.years = Some(calls'[Len(calls')].out.years)
       /\ calls' # calls => PassesChecks(Val(file)) /\ calls'[Len(calls')].text = Val(file).text
      ]_vars

\* a count was loaded from a.csv, then a file of more than 10 MB, a file that
\* is not a .csv and a file with too many columns were handed over: each
\* failed, the core was called on the last only, and the count of a.csv is
\* still the state
C15_Witness ==
    /\ pc = "idle"
    /\ file = Some(F_Wide)
    /\ out.thrown = "cols"
    /\ Len(calls) = 2
    /\ calls[1].text = T_Sections /\ calls[2].text = Commas(HistMaxCols + 1)
    /\ state.filename = Some(<<"a", ".", "c", "s", "v">>)
    /\ state.years = Some(<<1999>>)


\* the last of the accepted rows acc of w with the species and the year of row k
LastOf(w, acc, k) ==
    CHOOSE a \in acc :
        /\ w[a].name = w[k].name /\ w[a].year = w[k].year
        /\ \A b \in acc : (w[b].name = w[k].name /\ w[b].year = w[k].year) => a >= b

\* C16: every accepted species row contributes to the species matrix, also a
\* row whose header repeats a CountIndex that meta already holds: the record
\* of its species has a key for its year, and the value under that key is the
\* count of the last accepted row of that species and year.
C16_EveryAcceptedRowCounted ==
    pc = "done" =>
        LET w   == WrittenRead
            acc == RowsWith(w, IsNonBlank)
        IN  \A k \in acc : \E t \in 1..Len(out.speciesTable) :
                /\ out.speciesTable[t].Species = w[k].name
                /\ w[k].year \in DOMAIN out.speciesTable[t].counts
                /\ out.speciesTable[t].counts[w[k].year] = w[LastOf(w, acc, k)].count

\* C17: when several accepted rows carry the same species and year, the count
\* that speciesTable reports under that year is that of the last of them in
\* the order of the input; earlier counts are neither summed nor kept.
C17_LastCountWins ==
    pc = "done" =>
        LET w   == WrittenRead
            acc == RowsWith(w, IsNonBlank)
        IN  \A t \in 1..Len(out.speciesTable) :
              \A y \in DOMAIN out.speciesTable[t].counts :
                \E k \in acc :
                    /\ w[k].name = out.speciesTable[t].Species /\ w[k].year = y
                    /\ out.speciesTable[t].counts[y] = w[LastOf(w, acc, k)].count

\* species A came with the year 1999 and the count 5, then with the year
\* 2000, then with 1999 again and no count: 0 is reported under 1999
C17_Witness ==
    /\ pc = "done"
    /\ written = <<R_A1999, R_A2000, R_A1999n>>
    /\ Len(out.speciesTable) = 1
    /\ out.speciesTable[1].counts = [y \in {1999} |-> 0]


\* the rows of the written section that come before its first blank line
BeforeBlank(acc) ==
    {k \in acc : \A b \in 1..Len(written) : written[b] = <<>> => k < b}

\* C18: a blank line ends the section: the rows that come after the first
\* blank line that follows the species sentinel produce no meta record and no
\* species count.
C18_BlankLineEndsSection ==
    pc = "done" =>
        LET w    == WrittenRead
            kept == BeforeBlank(RowsWith(w, IsNonBlank))
        IN  /\ {out.meta[t].CountIndex : t \in 1..Len(out.meta)}
                  = {Some(w[k].index) : k \in kept}
            /\ {out.speciesTable[t].Species : t \in 1..Len(out.speciesTable)}
                  = {w[k].name : k \in kept}


\* the indexes of the records of the list recs, in order
IndexesOf(recs) == [t \in 1..Len(recs) |-> recs[t].CountIndex]

\* the indexes of the data rows, in order
IndexesRead(data) == [t \in 1..Len(data) |-> Some(LeadingInt(data[t][1]))]

\* the weather and the participation records are those of the data rows that
\* the written lines show when Looks tells which first cells look numeric
SectionsAre(Looks(_)) ==
    /\ IndexesOf(out.weatherRaw) = IndexesRead(DataRead(Lines, W_Sentinel, Looks))
    /\ IndexesOf(out.participantsEffort) = IndexesRead(DataRead(Lines, P_Sentinel, Looks))

\* C19 as stated: the weather and the participation section are the rows
\* after their first sentinel row up to, and without, the first row whose
\* first cell is not an optional "-", digits, an optional "." with digits and
\* nothing else; no row at or after that row yields a record of the section.
C19_SectionEndsAtNonNumeric ==
    pc = "done" => SectionsAre(IsSignedDecimal)

\* C19 (amended): the same, the first cell being looked at once the white
\* space around it is removed.
C19_SectionEndsAtNonNumericTrimmed ==
    pc = "done" => SectionsAre(LooksNumeric)

\* after the weather sentinel came a row whose first cell is " 5 ", a row
\* whose first cell is 1e3 and the example row: the first is a data row, the
\* second ends the section and the third yields nothing
C19_Witness ==
    /\ pc = "done"
    /\ written = <<W_Sentinel, W_Spaced, W_Exp, W_Example>>
    /\ IndexesOf(out.weatherRaw) = <<Some(5)>>
    /\ out.participantsEffort = <<>>


\* the index is neither null nor 0
IsIndex(o) == o # Null /\ o # Some(0)

\* the text begins with the weather and the participation section
HasSections == StartsWithAt(text, 1, T_WeatherSentinel)

\* C20: every record of weatherRaw and of participantsEffort has a CountIndex
\* that is neither null nor 0, and every meta record a CountIndex and a Year
\* that are not null; a weather or participation row whose first cell is
\* coerced to 0 or null is dropped and the rows after it still yield records.
C20_RecordsCarryIndex ==
    pc = "done" =>
        /\ \A t \in 1..Len(out.weatherRaw) : IsIndex(out.weatherRaw[t].CountIndex)
        /\ \A t \in 1..Len(out.participantsEffort) :
              IsIndex(out.participantsEffort[t].CountIndex)
        /\ \A t \in 1..Len(out.meta) :
              out.meta[t].CountIndex # Null /\ out.meta[t].Year # Null
        /\ HasSections =>
              /\ IndexesOf(out.weatherRaw) = <<Some(3)>>
              /\ IndexesOf(out.participantsEffort) = <<Some(1)>>

\* the weather and the participation section each began with a row of index
\* 0, and a species row with an unusable header came between two good ones
C20_Witness ==
    /\ pc = "done"
    /\ HasSections
    /\ written = <<R_A1999, R_BadHdr, R_B2000>>
    /\ Len(out.weatherRaw) = 1 /\ Len(out.participantsEffort) = 1
    /\ Len(out.meta) = 2


-----------------------------------------------------------------------------
(* parseUploadedFile called on a text of three sections: the weather rows, *)
(* the participation/effort rows and the species rows under their sentinel *)
(* rows.  written holds the three lists of rows the text was written from. *)

MaxEffortRows == 2

JW_1 == <<<<"1">>, <<"3", "0">>, <<"4", "0">>>>
JW_4 == <<<<"4">>, <<"2", "0", "F">>>>
JW_7 == <<<<"7">>>>

JoinWeathers == {<<>>, <<JW_4, JW_1, JW_7>>}

\* index 1 with a date of 1998; index 2 with participants and nothing else;
\* index 4 with a date whose first year stands inside a word, and once more
\* with a date that holds no year
JP_1  == <<<<"1">>, <<"1", "2", "/", "2", "7", "/", "1", "9", "9", "8">>, <<"1", "0">>, <<"7", ".", "2", "5">>, <<"4", "0">>>>
JP_2  == <<<<"2">>, <<>>, <<"7">>>>
JP_4  == <<<<"4">>, <<"x", "1", "9", "9", "9", SP, "1", "2", "/", "2", "0", "0", "0", "-", "2", "0", "0", "1">>>>
JP_4b == <<<<"4">>, <<"1", "9", "9", "9", "1", SP, "1", "8", "9", "9">>, <<"3">>>>

JoinEfforts == {JP_1, JP_2, JP_4, JP_4b}

\* index 1 under 1999 with a date of 1987 and the count of participants;
\* index 2 under 2000 with the four labels; index 4 under 2001; index 1 again
JS_1  == <<<<"A">>, <<"1", "9", "9", "9", SP, "[", "1", "]">> \o L_CountDate \o L_Participants, <<"5">>>>
JS_2  == <<<<"B">>, <<"2", "0", "0", "0", SP, "[", "2", "]">> \o L_TotalHrs \o L_Participants
                        \o L_CountDate \o L_SpeciesReported, <<"3">>>>
JS_4  == <<<<"C">>, <<"2", "0", "0", "1", "[", "4", "]">>, <<"1">>>>
JS_1b == <<<<"A">>, <<"2", "0", "0", "0", "[", "1", "]">> \o L_TotalHrs, <<"7">>>>

JoinSpecies == {<<>>, <<JS_1>>, <<JS_1, JS_2>>, <<JS_1b, JS_1, JS_4>>, <<JS_2, JS_4>>}

InitJoin ==
    /\ pc = "ready"
    /\ call = "parseUploadedFile"
    /\ \E w \in JoinWeathers :
          \E e \in UNION {LinesOfLen(JoinEfforts, n) : n \in 0..MaxEffortRows} :
              \E sp \in JoinSpecies :
                  written = [weather |-> w, effort |-> e, species |-> sp]
    /\ text = WriteRow(W_Sentinel) \o WriteLines(written.weather)
                 \o <<NL>> \o WriteRow(P_Sentinel) \o WriteLines(written.effort)
                 \o <<NL>> \o T_SpeciesSentinel \o WriteLines(written.species)
    /\ cell = <<>>
    /\ maxRows = HistMaxRows
    /\ maxCols = HistMaxCols
    /\ out = <<>>
    /\ AppIdle

\* parseUploadedFile from the call of the core to its return: calls keeps what
\* the core returned, out is what parseUploadedFile returns (a throw of the
\* core is passed on)
CallParseUploaded ==
    /\ pc = "ready"
    /\ call = "parseUploadedFile"
    /\ calls' = <<[text |-> text, out |-> parseHistoricalResultsByCountCsv(text)]>>
    /\ out' = IF calls'[1].out.thrown # "none"
              THEN [thrown |-> calls'[1].out.thrown, returned |-> Null]
              ELSE [thrown |-> "none", returned |-> Some(Uploaded(calls'[1].out))]
    /\ pc' = "done"
    /\ UNCHANGED <<call, text, maxRows, maxCols, cell, written, yearsPresent, file, state, store, saves>>

NextJoin == CallParseUploaded

SpecJoin == InitJoin /\ [][NextJoin]_vars

\* what the core returned, and what parseUploadedFile returned
Core == calls[1].out
Up == Val(out.returned)
UpParticipation == Val(Up.participation)
UpEffort == Val(Up.effort)
UpWeather == Val(Up.weather)

\* a word of c runs from a to b: letters, digits and "_", none before a or after b
WordOf(c, a, b) ==
    /\ a <= b /\ b <= Len(c)
    /\ \A x \in a..b : IsWordChar(c[x])
    /\ a = 1 \/ ~IsWordChar(c[a - 1])
    /\ b = Len(c) \/ ~IsWordChar(c[b + 1])

\* the positions of c where a word of four digits starts that begins with 19
\* or with 20
YearTokens(c) ==
    {a \in 1..Len(c) : /\ WordOf(c, a, a + 3)
                       /\ \A x \in a..(a + 3) : c[x] \in Digits
                       /\ SubSeq(c, a, a + 1) \in {<<"1", "9">>, <<"2", "0">>}}

\* the first such token of the date d (Null: no date), as a number
FirstYearToken(d) ==
    IF d = Null \/ YearTokens(Val(d)) = {} THEN Null
    ELSE Some(Numeral(SubSeq(Val(d), Min(YearTokens(Val(d))), Min(YearTokens(Val(d))) + 3), 0))

\* the year that the priority gives the record r of the core, meta its meta
YearByPriority(r, meta) ==
    LET ms == {m \in 1..Len(meta) : meta[m].CountIndex = r.CountIndex}
    IN  IF ms # {} THEN meta[CHOOSE m \in ms : TRUE].Year
        ELSE IF FirstYearToken(r.CountDate) # Null THEN FirstYearToken(r.CountDate)
        ELSE r.Year

\* C21: the year of each participation/effort record that parseUploadedFile
\* returns is the meta Year of the record's CountIndex when meta has that
\* index, otherwise the first 4-digit 19xx/20xx token of the record's own
\* CountDate, otherwise what the record already held (null); the index, the
\* date and the numbers of the record are those of the core.
C21_YearByPriority ==
    pc = "done" =>
        /\ Len(UpParticipation) = Len(Core.participantsEffort)
        /\ Len(UpEffort) = Len(Core.participantsEffort)
        /\ \A k \in 1..Len(Core.participantsEffort) :
              LET r == Core.participantsEffort[k]
                  y == YearByPriority(r, Core.meta)
              IN  /\ UpParticipation[k] =
                         [Year |-> y, CountDate |-> r.CountDate, CountIndex |-> r.CountIndex,
                          NumParticipants |-> r.NumParticipants]
                  /\ UpEffort[k] =
                         [Year |-> y, CountDate |-> r.CountDate, CountIndex |-> r.CountIndex,
                          NumHours |-> r.NumHours]

\* index 1 is in meta under 1999 while its own date says 1998; index 4 is not
\* in meta, and 2000 is the first year token of its date
C21_Witness ==
    /\ pc = "done"
    /\ written.effort = <<JP_1, JP_4>>
    /\ written.species = <<JS_1>>
    /\ UpParticipation[1].Year = Some(1999)
    /\ FirstYearToken(Core.participantsEffort[1].CountDate) = Some(1998)
    /\ UpParticipation[2].Year = Some(2000)


\* what the records rows supply for the index idx under the field f: the
\* value of the record with that index (of the last one, when several share
\* it), Null when there is no such record or it holds none
Supplied(rows, idx, f) ==
    LET has == {k \in 1..Len(rows) : rows[k].CountIndex = idx}
    IN  IF has = {} THEN Null ELSE rows[CHOOSE a \in has : \A b \in has : a >= b][f]

\* the value of the participation/effort records, that of meta without one
PeThenMeta(idx, f) ==
    IF Supplied(UpParticipation, idx, f) # Null THEN Supplied(UpParticipation, idx, f)
    ELSE Supplied(Core.meta, idx, f)

\* C22: joinWeatherWithYearInfo returns one record per weather record, in the
\* same order and with every weather field unchanged, and adds the Year and
\* the CountDate of the participation/effort record with the same CountIndex
\* (the one the index map keeps, the last, when several share the index),
\* each falling back to the meta record with that CountIndex, and null when
\* neither supplies a value.
C22_WeatherJoinedByIndex ==
    pc = "done" =>
        /\ Len(UpWeather) = Len(Core.weatherRaw)
        /\ \A k \in 1..Len(UpWeather) :
              LET w == Core.weatherRaw[k]
              IN  /\ DOMAIN UpWeather[k] = DOMAIN w \cup {"Year", "CountDate"}
                  /\ \A f \in DOMAIN w : UpWeather[k][f] = w[f]
                  /\ UpWeather[k].Year = PeThenMeta(w.CountIndex, "Year")
                  /\ UpWeather[k].CountDate = PeThenMeta(w.CountIndex, "CountDate")

\* weather of the indexes 4, 1 and 7: index 4 has no participation record and
\* takes the year of meta, index 1 takes year and date of its participation
\* record, index 7 is known to neither
C22_Witness ==
    /\ pc = "done"
    /\ written.weather = <<JW_4, JW_1, JW_7>>
    /\ written.effort = <<JP_1, JP_2>>
    /\ written.species = <<JS_2, JS_4>>
    /\ UpWeather[1].Year = Some(2001) /\ UpWeather[1].CountDate = Null
    /\ UpWeather[1].LowTempF # Null
    /\ UpWeather[2].Year = Some(1998)
    /\ UpWeather[2].CountDate = Some(<<"1", "2", "/", "2", "7", "/", "1", "9", "9", "8">>)
    /\ UpWeather[3].Year = Null /\ UpWeather[3].CountDate = Null


-----------------------------------------------------------------------------
(* The extraction called on the rows that carry the metadata of a count:   *)
(* compiler header rows with the values below them, the circle marker row  *)
(* and circle rows                                                         *)

MaxMetaRows == 3

M_Header   == <<<<"C", "o", "m", "p", "i", "l", "e", "r", "E", "m", "a", "i", "l">>,
                <<SP, "c", "o", "m", "p", "i", "l", "e", "r", "N", "A", "M", "E", SP>>>>
M_Values   == <<<<"j", "o", "@", "x">>, <<"J", "o">>>>
M_Compiler == <<<<"C", "o", "m", "p", "i", "l", "e", "r">>>>
M_Email    == <<<<"9">>, <<SP, "E", "M", "A", "I", "L", SP>>, <<"1", "2">>>>
M_Marker   == <<S_CircleName, S_Abbrev>>
M_Circle   == <<<<SP, "F", "o", "o", SP>>, <<"F", "O">>, <<"3", "8", ".", "5", "/", "-", "1", "2", "1">>>>
M_CircleOdd == <<<<>>, <<SP>>, <<SP, "/", SP, "1", ".", "5", SP, "/", "3">>>>
M_CircleHalf == <<<<"B", "a", "r">>, <<>>, <<"-", "7", "/", "x">>>>

MetaRows == {M_Header, M_Values, M_Compiler, M_Email, M_Marker, M_Circle, M_CircleOdd, M_CircleHalf}

InitMeta ==
    /\ pc = "ready"
    /\ call = "parseHistoricalResultsByCountCsv"
    /\ written \in UNION {LinesOfLen(MetaRows, n) : n \in 0..MaxMetaRows}
    /\ text = IF written = <<>> THEN <<>> ELSE Tail(WriteLines(written))
    /\ cell = <<>>
    /\ maxRows = HistMaxRows
    /\ maxCols = HistMaxCols
    /\ out = <<>>
    /\ AppIdle

NextMeta == CallParseHistorical

SpecMeta == InitMeta /\ [][NextMeta]_vars

\* the header tokens of the four compiler fields
FieldTokens ==
    [CompilerFirstName |-> {S_compilerfirstname},
     CompilerLastName  |-> {S_compilerlastname},
     CompilerEmail     |-> {S_compileremail, S_email},
     CompilerName      |-> {S_compilername, S_compiler}]

\* the cell c is a header token of the field F, whatever its case and the
\* white space around it
IsTokenOf(c, F) == toLowerCase(Strip(c)) \in FieldTokens[F]

\* the row r names the field F: a cell of it is a token of F or speaks of a
\* compiler
Mentions(r, F) ==
    \E c \in 1..Len(r) : IsTokenOf(r[c], F) \/ Includes(toLowerCase(r[c]), S_compiler)

\* C23: when a row within the compiler scan window has a header token at
\* column c and the next row has a non-empty value at column c, the countInfo
\* field of the token is that value, unless a later row supplies another value
\* for the field (here: unless a later row names the field at all).
C23_TokenTakesValueBelow ==
    pc = "done" =>
        \A F \in DOMAIN FieldTokens :
            \A i \in 1..(Len(Lines) - 1) :
                \A c \in 1..Len(Lines[i]) :
                    (/\ i <= CompilerScanRows
                     /\ IsTokenOf(Lines[i][c], F)
                     /\ Strip(CellOf(Lines[i + 1], c)) # <<>>
                     /\ \A j \in (i + 1)..Len(Lines) : ~Mentions(Lines[j], F))
                    => out.countInfo[F] = Some(Strip(CellOf(Lines[i + 1], c)))

\* the text of c before its first "/", and the text between its first "/"
\* and its second, or its end
SideOne(c) == SubSeq(c, 1, Min({k \in 1..Len(c) : c[k] = "/"}) - 1)
SideTwo(c) ==
    LET rest == From(c, Min({k \in 1..Len(c) : c[k] = "/"}) + 1)
        more == {k \in 1..Len(rest) : rest[k] = "/"}
    IN  IF more = {} THEN rest ELSE SubSeq(rest, 1, Min(more) - 1)

\* the number the side t writes, Null when it writes none
SideRead(t) == IF IsSignedDecimal(Strip(t)) THEN Some(DecimalValue(Strip(t))) ELSE Null

\* c without the white space around it, Null when nothing is left
StripOrNull(c) == IF Strip(c) = <<>> THEN Null ELSE Some(Strip(c))

\* name, code and position as the row v says them
CircleRead(v) ==
    LET ll == Strip(CellOf(v, 3))
        slashed == \E k \in 1..Len(ll) : ll[k] = "/"
    IN  [CountName |-> StripOrNull(CellOf(v, 1)),
         CountCode |-> StripOrNull(CellOf(v, 2)),
         Lat |-> IF slashed THEN SideRead(SideOne(ll)) ELSE Null,
         Lon |-> IF slashed THEN SideRead(SideTwo(ll)) ELSE Null]

\* C25: circle identity comes from the row directly below the first row whose
\* first two cells are exactly CircleName and Abbrev: CountName and CountCode
\* are its trimmed cells 0 and 1 (null when empty), Lat and Lon the two sides
\* of its cell 2 split on "/", each read as a number on its own (null for a
\* side that is none, both null without a "/"); later marker rows are
\* ignored, and without a marker row the four fields are null.
C25_CircleFromRowBelowFirstMarker ==
    pc = "done" =>
        LET marks == {i \in 1..Len(Lines) :
                         CellOf(Lines[i], 1) = S_CircleName /\ CellOf(Lines[i], 2) = S_Abbrev}
            below == IF marks = {} \/ Min(marks) = Len(Lines) THEN <<>>
                     ELSE Lines[Min(marks) + 1]
        IN  \A f \in {"CountName", "CountCode", "Lat", "Lon"} :
                out.countInfo[f] = IF marks = {} THEN Null ELSE CircleRead(below)[f]

\* the marker row, a circle row whose position has a blank first side, and
\* the marker row again above another circle row: the first pair decides
C25_Witness ==
    /\ pc = "done"
    /\ written = <<M_Marker, M_CircleHalf, M_Marker>>
    /\ out.countInfo.CountName = Some(<<"B", "a", "r">>)
    /\ out.countInfo.CountCode = Null
    /\ out.countInfo.Lat = Some([m |-> -7, e |-> 0])
    /\ out.countInfo.Lon = Null


-----------------------------------------------------------------------------
(* The extraction called twice on grids that share their first rows: rows  *)
(* of filler, then a compiler header row or the circle marker row at the   *)
(* edge of its scan window, then rows that differ from call to call        *)

MaxTailRows == 1

M_Filler == <<<<"x">>>>

\* the row that follows the filler, and the number of filler rows before it
WindowHeads ==
    {[rows |-> n, then |-> M_Marker] : n \in {CircleScanRows - 2, CircleScanRows - 1, CircleScanRows}}
        \cup {[rows |-> n, then |-> M_Compiler] :
                 n \in {CompilerScanRows - 2, CompilerScanRows - 1, CompilerScanRows}}

WindowTails ==
    UNION {LinesOfLen({M_Values, M_Header, M_Circle, M_CircleHalf}, n) : n \in 0..MaxTailRows}

\* n rows of filler (halved so that a long grid does not nest the evaluation deeply)
RECURSIVE Filler(_)
Filler(n) ==
    IF n = 0 THEN <<>>
    ELSE IF n = 1 THEN <<M_Filler>>
    ELSE Filler(n \div 2) \o Filler(n - n \div 2)

GridOf(h, tail) == Filler(h.rows) \o <<h.then>> \o tail

InitWindow ==
    /\ pc = "ready"
    /\ call = "parseHistoricalResultsByCountCsv"
    /\ \E h \in WindowHeads : \E tail \in WindowTails : written = GridOf(h, tail)
    /\ text = Tail(WriteLines(written))
    /\ cell = <<>>
    /\ maxRows = HistMaxRows
    /\ maxCols = HistMaxCols
    /\ out = <<>>
    /\ AppIdle

\* the first call, on the text as it stands
CallOnGrid ==
    /\ pc = "ready"
    /\ out' = parseHistoricalResultsByCountCsv(text)
    /\ calls' = <<[rows |-> written, out |-> out']>>
    /\ pc' = "again"
    /\ UNCHANGED <<call, text, maxRows, maxCols, cell, written, yearsPresent, file, state, store, saves>>

\* the second call, on a text whose rows after the head are others
CallOnOtherTail ==
    /\ pc = "again"
    /\ \E h \in WindowHeads : \E tail \in WindowTails :
          /\ Len(written) > h.rows
          /\ GridOf(h, <<>>) = SubSeq(written, 1, h.rows + 1)
          /\ written' = GridOf(h, tail)
    /\ text' = Tail(WriteLines(written'))
    /\ out' = parseHistoricalResultsByCountCsv(text')
    /\ calls' = Append(calls, [rows |-> written', out |-> out'])
    /\ pc' = "done"
    /\ UNCHANGED <<call, maxRows, maxCols, cell, yearsPresent, file, state, store, saves>>

NextWindow == CallOnGrid \/ CallOnOtherTail

SpecWindow == InitWindow /\ [][NextWindow]_vars

\* the first n rows of the grid g
FirstRows(g, n) == SubSeq(g, 1, IF Len(g) < n THEN Len(g) ELSE n)

CompilerFields == {"CompilerFirstName", "CompilerLastName", "CompilerName", "CompilerEmail"}
CircleFields == {"CountName", "CountCode", "Lat", "Lon"}

\* two calls whose grids agree on their first n rows agree on the fields F
SameOnFirst(n, F) ==
    \A a \in 1..Len(calls) : \A b \in 1..Len(calls) :
        FirstRows(calls[a].rows, n) = FirstRows(calls[b].rows, n)
        => \A f \in F : calls[a].out.countInfo[f] = calls[b].out.countInfo[f]

\* C24 as stated: the compiler fields of countInfo depend only on the first 80
\* rows of the grid, and CountName, CountCode, Lat and Lon only on the first
\* 50: two inputs whose grids agree on those rows yield the same fields.
C24_FieldsOfWindowRows ==
    /\ SameOnFirst(CompilerScanRows, CompilerFields)
    /\ SameOnFirst(CircleScanRows, CircleFields)

\* C24 (amended): the compiler fields depend only on the first 81 rows of the
\* grid (the 80 rows scanned and the row below the last of them), and
\* CountName, CountCode, Lat and Lon only on the first 51: two inputs whose
\* grids agree on those rows yield the same fields, whatever the later rows
\* contain.
C24_FieldsOfWindowRowsAndNext ==
    /\ SameOnFirst(CompilerScanRows + 1, CompilerFields)
    /\ SameOnFirst(CircleScanRows + 1, CircleFields)

\* two grids with the marker row as their 51st row and different rows below
\* it: the circle fields of both are null
C24_Witness ==
    /\ pc = "done"
    /\ calls[1].rows = GridOf([rows |-> CircleScanRows, then |-> M_Marker], <<M_Circle>>)
    /\ calls[2].rows = GridOf([rows |-> CircleScanRows, then |-> M_Marker], <<M_CircleHalf>>)
    /\ \A f \in CircleFields : calls[1].out.countInfo[f] = Null /\ calls[2].out.countInfo[f] = Null


-----------------------------------------------------------------------------
(* parseMaybeInt and parseMaybeFloat called on short cells                 *)

MaxCoerceLen == 3

CoerceChars == {"1", "5", "-", "+", ".", "e", "a", SP}

InitCoerce ==
    /\ pc = "ready"
    /\ call \in {"parseMaybeInt", "parseMaybeFloat"}
    /\ cell \in UNION {LinesOfLen(CoerceChars, n) : n \in 0..MaxCoerceLen}
    /\ text = <<>>
    /\ maxRows = 0
    /\ maxCols = 0
    /\ written = <<>>
    /\ out = Null
    /\ AppIdle

CallParseMaybeInt ==
    /\ pc = "ready"
    /\ call = "parseMaybeInt"
    /\ out' = parseMaybeInt(cell)
    /\ pc' = "done"
    /\ UNCHANGED <<call, text, maxRows, maxCols, cell, written, yearsPresent, calls, file, state, store, saves>>

CallParseMaybeFloat ==
    /\ pc = "ready"
    /\ call = "parseMaybeFloat"
    /\ out' = parseMaybeFloat(cell)
    /\ pc' = "done"
    /\ UNCHANGED <<call, text, maxRows, maxCols, cell, written, yearsPresent, calls, file, state, store, saves>>

NextCoerce == CallParseMaybeInt \/ CallParseMaybeFloat

SpecCoerce == InitCoerce /\ [][NextCoerce]_vars

\* C26: parseMaybeInt and parseMaybeFloat return null exactly when the trimmed
\* text is empty or not of the numeric-looking form (optional "-", digits,
\* optional single decimal part), and for numeric text they return its value
\* (parseMaybeInt: the whole number it begins with).
C26_NullExactlyWhenNotNumeric ==
    pc = "done" =>
        /\ out = Null <=> ~IsSignedDecimal(Strip(cell))
        /\ IsSignedDecimal(Strip(cell)) =>
               out = Some(IF call = "parseMaybeInt" THEN LeadingInt(cell)
                          ELSE DecimalValue(Strip(cell)))

-----------------------------------------------------------------------------
(* parseYearHeaderCell called on a cell of a year and an index followed by *)
(* labelled parts: written lists the parts, each a label and the line      *)
(* break or the space that comes before it                                 *)

MaxParts == 4

PartLabels == <<Tail(L_CountDate), Tail(L_Participants), Tail(L_SpeciesReported), Tail(L_TotalHrs)>>

\* the lists of up to n parts of different labels
RECURSIVE PartLists(_)
PartLists(n) ==
    IF n = 0 THEN {<<>>}
    ELSE PartLists(n - 1) \cup
         UNION {{Append(l, [label |-> k, sep |-> b]) :
                    k \in {x \in 1..Len(PartLabels) : \A a \in 1..Len(l) : l[a].label # x},
                    b \in {NL, SP}}
                : l \in {m \in PartLists(n - 1) : Len(m) = n - 1}}

RECURSIVE WriteParts(_)
WriteParts(l) ==
    IF l = <<>> THEN <<>>
    ELSE <<l[1].sep>> \o PartLabels[l[1].label] \o WriteParts(Tail(l))

InitLabels ==
    /\ pc = "ready"
    /\ call = "parseYearHeaderCell"
    /\ written \in PartLists(MaxParts)
    /\ cell = <<"1", "9", "9", "9", SP, "[", "1", "]">> \o WriteParts(written)
    /\ text = <<>>
    /\ maxRows = 0
    /\ maxCols = 0
    /\ out = Null
    /\ AppIdle

NextLabels == CallParseYearHeaderCell

SpecLabels == InitLabels /\ [][NextLabels]_vars

\* the part of the label k is written in the cell
HasPart(k) == \E a \in 1..Len(written) : written[a].label = k

\* C27: the four labelled sub-fields of a header cell are extracted
\* independently of each other: whatever the order of the labelled parts,
\* whether each starts a line or follows on the line before, and whichever
\* other labels are present, a sub-field is the value written after its label,
\* and null when its label is absent.
C27_SubFieldsIndependent ==
    pc = "done" =>
        out = Some([Year       |-> Some(1999),
                    CountIndex |-> Some(1),
                    CountDate  |-> IF HasPart(1)
                                   THEN Some(<<"1", "2", "/", "2", "7", "/", "1", "9", "8", "7">>)
                                   ELSE Null,
                    NumParticipants    |-> IF HasPart(2) THEN Some(42) ELSE Null,
                    NumSpeciesReported |-> IF HasPart(3) THEN Some(87) ELSE Null,
                    TotalHrs           |-> IF HasPart(4) THEN Some([m |-> 65, e |-> 1]) ELSE Null])

\* the hours on the first line, the date on a line of its own after them,
\* and no other label
C27_Witness ==
    /\ pc = "done"
    /\ written = <<[label |-> 4, sep |-> SP], [label |-> 1, sep |-> NL]>>
    /\ Val(out).TotalHrs = Some([m |-> 65, e |-> 1])
    /\ Val(out).CountDate # Null
    /\ Val(out).NumParticipants = Null /\ Val(out).NumSpeciesReported = Null


-----------------------------------------------------------------------------
(* parseCsvText: the shape of the rows it returns (checked in SpecLex)     *)

\* the fields of every line of t, t a text without quotes
FieldsOfLines(t) ==
    LET ls == SplitOn(t, NL)
    IN  AsTuple([k \in 1..Len(ls) |-> AsTuple(SplitOn(ls[k], COMMA))])

\* C28: every row returned by parseCsvText has at least one field and its last
\* field is not empty or whitespace-only; of a text without quotes the rows
\* are the lines' fields with the trailing blank fields dropped and the
\* interior blank fields kept in place, and a line of blank fields only
\* gives no row.
C28_RowsEndInSolidField ==
    (pc = "done" /\ out.thrown = "none") =>
        /\ \A k \in 1..Len(out.rows) :
              /\ Len(out.rows[k]) >= 1
              /\ Strip(out.rows[k][Len(out.rows[k])]) # <<>>
        /\ (\A j \in 1..Len(text) : text[j] # QUOTE)
               => out.rows = KeptRows(FieldsOfLines(text))

\* the line ,a, and the line of one blank field: the empty first field is kept,
\* the empty last one is dropped, and the second line gives no row
C28_Witness ==
    /\ pc = "done"
    /\ text = <<COMMA, "a", COMMA, NL, SP>>
    /\ out = Returned(<<<<<<>>, <<"a">>>>>>)


-----------------------------------------------------------------------------
(* The species pass and the participation/effort records (checked in       *)
(* SpecJoin, on what the core returned)                                    *)

\* the participation/effort records as the participation section gives them
SectionRecords == AsTuple([k \in 1..Len(written.effort) |-> ParticipationRecord(written.effort[k])])

\* what the header cell h carries for the field f of a participation/effort
\* record: the value written after the label of the field, Null without it
HeaderCarries(h, f) ==
    LET part  == [CountDate |-> L_CountDate, NumParticipants |-> L_Participants,
                  NumSpeciesReported |-> L_SpeciesReported, NumHours |-> L_TotalHrs]
        value == [CountDate |-> Some(<<"1", "2", "/", "2", "7", "/", "1", "9", "8", "7">>),
                  NumParticipants |-> Some(42),
                  NumSpeciesReported |-> Some(87),
                  NumHours |-> Some([m |-> 65, e |-> 1])]
    IN  IF Includes(h, part[f]) THEN value[f] ELSE Null

FilledFields == {"CountDate", "NumParticipants", "NumSpeciesReported", "NumHours"}

\* C29: the species pass only fills gaps in the participation/effort records.
\* No record is added or removed and none changes its index; a value that the
\* participation section gave is never overwritten; a field that differs from
\* what the section gave was null there and holds what a species header of
\* the record's CountIndex carries for it; a record whose index no species
\* header has is untouched.
C29_HeadersOnlyFillGaps ==
    pc = "done" =>
        LET pe  == Core.participantsEffort
            was == SectionRecords
            hdr == [j \in 1..Len(written.species) |-> RowRead(written.species[j])]
        IN  /\ Len(pe) = Len(was)
            /\ \A k \in 1..Len(pe) :
                  /\ pe[k].CountIndex = was[k].CountIndex
                  /\ pe[k].Year = was[k].Year
                  /\ \A f \in FilledFields :
                        /\ was[k][f] # Null => pe[k][f] = was[k][f]
                        /\ pe[k][f] # was[k][f] =>
                              \E j \in 1..Len(hdr) :
                                  /\ Some(hdr[j].index) = was[k].CountIndex
                                  /\ pe[k][f] = HeaderCarries(CellOf(written.species[j], 2), f)
                  /\ (\A j \in 1..Len(hdr) : Some(hdr[j].index) # was[k].CountIndex)
                         => pe[k] = was[k]

\* the record of index 1 keeps its date and its participants under a header
\* that carries both; the record of index 2 keeps its participants and takes
\* date, hours and species reported from its header
C29_Witness ==
    /\ pc = "done"
    /\ written.effort = <<JP_1, JP_2>>
    /\ written.species = <<JS_1, JS_2>>
    /\ Core.participantsEffort[1] = SectionRecords[1]
    /\ SectionRecords[2].CountDate = Null /\ SectionRecords[2].NumHours = Null
    /\ Core.participantsEffort[2] =
           [CountIndex |-> Some(2), Year |-> Null,
            CountDate |-> Some(<<"1", "2", "/", "2", "7", "/", "1", "9", "8", "7">>),
            NumParticipants |-> Some(7), NumHours |-> Some([m |-> 65, e |-> 1]),
            NumSpeciesReported |-> Some(87)]


-----------------------------------------------------------------------------
(* main.js: two calls of handleFile under way at once, each with the save  *)
(* it starts.  A call is cut into steps at its awaits; pc, text and saves  *)
(* hold the position, the text read and the locals of the save of each     *)
(* call, file the two files.                                               *)

\* sanitizeFilenamePart(s)
sanitizeFilenamePart(s) ==
    LET t       == Trim(s)
        joined  == CollapseSpaces(t, 1, Len(t))
        scored  == AsTuple([k \in 1..Len(joined) |-> IF joined[k] = SP THEN "_" ELSE joined[k]])
        cleaned == SelectSeq(scored, LAMBDA c : IsWordChar(c) \/ c \in {".", "-"})
    IN  SubSeq(cleaned, 1, IF Len(cleaned) < 80 THEN Len(cleaned) ELSE 80)

\* a || b on strings that may be null
OrElse(a, b) == IF a = Null \/ Val(a) = <<>> THEN b ELSE a

\* safeCountKey(), st the state it reads
safeCountKey(st) ==
    LET ci        == IF st.countInfo = Null THEN NoCountInfo ELSE Val(st.countInfo)
        preferred == OrElse(ci.CountCode, OrElse(ci.CountName, Some(<<>>)))
        key       == OrElse(Some(sanitizeFilenamePart(Val(preferred))),
                            Some(sanitizeFilenamePart(
                                Val(OrElse(ci.CountName, Some(<<"c", "o", "u", "n", "t">>))))))
    IN  Val(OrElse(key, Some(<<"c", "o", "u", "n", "t">>)))

\* a list that may be null: value || []
OrEmpty(o) == IF o = Null THEN <<>> ELSE Val(o)

\* the rows that the saveJson calls write into the database, st the state they
\* read (ranges, sourceUrl, maxCountIndex and savedAt are left out)
SavedRows(st) ==
    [countInfo     |-> st.countInfo,
     years         |-> OrEmpty(st.years),
     yearsFull     |-> OrEmpty(st.yearsFull),
     missingYears  |-> OrEmpty(st.missingYears),
     meta          |-> OrEmpty(st.meta),
     species       |-> OrEmpty(st.species),
     weather       |-> OrEmpty(st.weather),
     effort        |-> OrEmpty(st.effort),
     participation |-> OrEmpty(st.participation)]

\* const name = ci.CountName || ci.CountCode || code
IndexName(st, code) ==
    LET ci == IF st.countInfo = Null THEN NoCountInfo ELSE Val(st.countInfo)
    IN  Val(OrElse(ci.CountName, OrElse(ci.CountCode, Some(code))))

Calls == {1, 2}

T_CountA == T_CircleMarker \o <<NL>> \o T_CircleRow \o <<NL>>
                \o T_SpeciesSentinel \o <<NL>> \o T_SpeciesRow
T_CountB == T_CircleMarker \o <<NL>> \o <<"B", "a", "r", ",", "B", "A">> \o <<NL>>
                \o T_SpeciesSentinel \o <<NL>> \o <<"B", ",", "2", "0", "0", "0", "[", "2", "]", ",", "7">>

F_CountA == File(<<"a", ".", "c", "s", "v">>, Some(Len(T_CountA)), Len(T_CountA), T_CountA)
F_CountB == File(<<"b", ".", "c", "s", "v">>, Some(Len(T_CountB)), Len(T_CountB), T_CountB)

InitSave ==
    /\ pc = [c \in Calls |-> "idle"]
    /\ call = "handleFile"
    /\ file \in {<<F_CountA, F_CountB>>, <<F_CountB, F_CountA>>}
    /\ text = [c \in Calls |-> <<>>]
    /\ maxRows = HistMaxRows
    /\ maxCols = HistMaxCols
    /\ cell = <<>>
    /\ written = <<>>
    /\ out = Shown("empty")
    /\ yearsPresent = <<>>
    /\ calls = <<>>
    /\ state = NoState
    /\ store = NoStore
    /\ saves = [c \in Calls |-> [at |-> "none"]]

\* handleFile(file[c]) up to the first await of parseUploadedFile
HandleFileBegin(c) ==
    /\ pc[c] = "idle"
    /\ IF ~EndsWithCsv(file[c].name)
       THEN out' = ShownError("csv only") /\ pc' = [pc EXCEPT ![c] = "over"]
       ELSE IF SizeTooBig(file[c])
            THEN out' = ShownError("too big") /\ pc' = [pc EXCEPT ![c] = "over"]
            ELSE out' = Shown("processing") /\ pc' = [pc EXCEPT ![c] = "reading"]
    /\ UNCHANGED <<call, text, maxRows, maxCols, cell, written, yearsPresent, calls, file,
                   state, store, saves>>

\* from the text of the file to the await of the import
HandleFileText(c) ==
    /\ pc[c] = "reading"
    /\ IF TextTooBig(file[c])
       THEN out' = ShownError("too big") /\ pc' = [pc EXCEPT ![c] = "over"] /\ text' = text
       ELSE /\ out' = out
            /\ pc' = [pc EXCEPT ![c] = "importing"]
            /\ text' = [text EXCEPT ![c] = file[c].text]
    /\ UNCHANGED <<call, maxRows, maxCols, cell, written, yearsPresent, calls, file,
                   state, store, saves>>

\* the rest of parseUploadedFile and of handleFile: state is replaced, the
\* count is rendered and saveCurrentStateToSqlite is called, which runs up to
\* its await of getSql (state.species is not null here)
HandleFileLoaded(c) ==
    /\ pc[c] = "importing"
    /\ calls' = Append(calls, [text |-> text[c], out |-> parseHistoricalResultsByCountCsv(text[c])])
    /\ IF calls'[Len(calls')].out.thrown # "none"
       THEN /\ out' = ShownError(calls'[Len(calls')].out.thrown)
            /\ state' = state
            /\ saves' = saves
       ELSE /\ out' = Shown("rendered")
            /\ state' = LoadedState(Uploaded(calls'[Len(calls')].out), file[c])
            /\ saves' = [saves EXCEPT ![c] = [at |-> "getSql"]]
    /\ pc' = [pc EXCEPT ![c] = "over"]
    /\ UNCHANGED <<call, text, maxRows, maxCols, cell, written, yearsPresent, file, store>>

\* saveCurrentStateToSqlite after getSql: the database is filled from state
\* as it is now, code and name are taken from it, and idbSet is awaited
SaveBuild(c) ==
    /\ saves[c].at = "getSql"
    /\ saves' = [saves EXCEPT ![c] =
                    [at    |-> "putDb",
                     code  |-> safeCountKey(state),
                     name  |-> IndexName(state, safeCountKey(state)),
                     bytes |-> SavedRows(state)]]
    /\ UNCHANGED <<pc, call, text, maxRows, maxCols, cell, written, out, yearsPresent, calls,
                   file, state, store>>

\* the put of idbSet(countDb:code, bytes)
SavePutDb(c) ==
    /\ saves[c].at = "putDb"
    /\ store' = [store EXCEPT !.dbs =
                    [k \in DOMAIN store.dbs \cup {saves[c].code} |->
                        IF k = saves[c].code THEN saves[c].bytes ELSE store.dbs[k]]]
    /\ saves' = [saves EXCEPT ![c].at = "loadIndex"]
    /\ UNCHANGED <<pc, call, text, maxRows, maxCols, cell, written, out, yearsPresent, calls,
                   file, state>>

\* the get of loadCountsIndex, and next = idx.filter(...) with the entry pushed
SaveLoadIndex(c) ==
    /\ saves[c].at = "loadIndex"
    /\ saves' = [saves EXCEPT ![c] =
                    [at   |-> "putIndex",
                     code |-> saves[c].code,
                     next |-> Append(SelectSeq(OrEmpty(store.index),
                                               LAMBDA r : r.code # saves[c].code),
                                     [code |-> saves[c].code, name |-> saves[c].name])]]
    /\ UNCHANGED <<pc, call, text, maxRows, maxCols, cell, written, out, yearsPresent, calls,
                   file, state, store>>

\* the put of saveCountsIndex(next); the list of stored counts is rendered
SavePutIndex(c) ==
    /\ saves[c].at = "putIndex"
    /\ store' = [store EXCEPT !.index = Some(saves[c].next)]
    /\ saves' = [saves EXCEPT ![c] = [at |-> "over", code |-> saves[c].code]]
    /\ UNCHANGED <<pc, call, text, maxRows, maxCols, cell, written, out, yearsPresent, calls,
                   file, state>>

NextSave ==
    \E c \in Calls :
        \/ HandleFileBegin(c)
        \/ HandleFileText(c)
        \/ HandleFileLoaded(c)
        \/ SaveBuild(c)
        \/ SavePutDb(c)
        \/ SaveLoadIndex(c)
        \/ SavePutIndex(c)

SpecSave == InitSave /\ [][NextSave]_vars

\* the count code written in the file of the call c, and the rows that a save
\* of its count alone writes
CodeOf(c) == IF file[c] = F_CountA THEN <<"F", "O">> ELSE <<"B", "A">>
RowsOf(c) ==
    SavedRows(LoadedState(Uploaded(parseHistoricalResultsByCountCsv(file[c].text)), file[c]))

\* C30: under any interleaving of two handleFile calls for files of different
\* count codes, once both background saves have completed, the stored counts
\* index has one entry for each of the two codes, and the database stored
\* under each code holds the data parsed from the file of that code.
C30_BothCountsStored ==
    (\A c \in Calls : pc[c] = "over" /\ saves[c].at = "over") =>
        \A c \in Calls :
            /\ Cardinality({k \in 1..Len(OrEmpty(store.index)) :
                               OrEmpty(store.index)[k].code = CodeOf(c)}) = 1
            /\ CodeOf(c) \in DOMAIN store.dbs
            /\ store.dbs[CodeOf(c)] = RowsOf(c)

=============================================================================
